---- MODULE Spec2Model ----
(***************************************************************************)
(* A model of the plist package: the reflective Marshal / Unmarshal        *)
(* engines (marshal.go), the basic conversion routines (convert.go) and    *)
(* the entry points around the CoreFoundation codec (plist.go).            *)
(*                                                                         *)
(* Representation.                                                         *)
(*  - A Go string is a sequence of one-character strings.                  *)
(*  - A 64-bit integer is a tuple of four 16-bit limbs, most significant   *)
(*    first, holding the two's complement bit pattern.                     *)
(*  - A Go type is a record (see TypeOf below); a Go value is a record     *)
(*    with its type T and one payload field named after its kind.          *)
(*  - A CoreFoundation object is a record with its type id t and a         *)
(*    payload field.                                                       *)
(***************************************************************************)
EXTENDS Integers, Sequences, FiniteSets, TLC

VARIABLES
    encodeFieldsCache,  \* marshal.go: map[reflect.Type][]encodeField
    obj,                \* the value handed to the last Marshal call
    mfmt,               \* the format handed to it
    data,               \* the bytes it returned
    merr,               \* the error it returned
    udata,              \* the bytes handed to the Unmarshal call that followed it
    pre,                \* the value handed to that call, before the call
    target,             \* that value after the call
    uerr,               \* the error the call returned
    ufmt,               \* the format the call returned
    ustate,             \* unmarshalState.err when the call returned
    trace,              \* what the call did, in order (empty: no such call yet)
    typeCacheLock,      \* marshal.go: the sync.RWMutex that guards encodeFieldsCache
    pc,                 \* the line of encodeFields each goroutine is at
    arg,                \* the type t each goroutine's encodeFields call was handed
    local,              \* its local variables fs and ok
    computed            \* how many times the descriptor of each type has been computed

\* the variables of the goroutines that call encodeFields side by side
goVars == <<typeCacheLock, pc, arg, local, computed>>

vars == <<encodeFieldsCache, obj, mfmt, data, merr, udata, pre, target, uerr, ufmt, ustate, trace,
          typeCacheLock, pc, arg, local, computed>>

-----------------------------------------------------------------------------
(* 64-bit arithmetic on limbs *)

LimbBase == 256 * 256
LimbMax == LimbBase - 1

Zero64 == <<0, 0, 0, 0>>
Small64(n) == <<0, 0, 0, n>>

\* x + y modulo 2^64
Add64(x, y) ==
    LET s4 == x[4] + y[4]
        s3 == x[3] + y[3] + (s4 \div LimbBase)
        s2 == x[2] + y[2] + (s3 \div LimbBase)
        s1 == x[1] + y[1] + (s2 \div LimbBase)
    IN  <<s1 % LimbBase, s2 % LimbBase, s3 % LimbBase, s4 % LimbBase>>

Not64(x) == <<LimbMax - x[1], LimbMax - x[2], LimbMax - x[3], LimbMax - x[4]>>
Neg64(x) == Add64(Not64(x), Small64(1))
Sub64(x, y) == Add64(x, Neg64(y))

\* 2^k for k in 0..63
Pow2(k) == [i \in 1..4 |-> IF i = 4 - (k \div 16) THEN 2 ^ (k % 16) ELSE 0]

IsNeg64(x) == x[1] >= LimbBase \div 2

\* unsigned and signed order on bit patterns
ULess(x, y) ==
    \E i \in 1..4 : x[i] < y[i] /\ \A j \in 1..(i - 1) : x[j] = y[j]
ULeq(x, y) == x = y \/ ULess(x, y)
SLess(x, y) == IF IsNeg64(x) # IsNeg64(y) THEN IsNeg64(x) ELSE ULess(x, y)
SLeq(x, y) == x = y \/ SLess(x, y)

\* quotient and remainder of the unsigned value by ten
DivMod10(u) ==
    LET c1 == u[1]
        c2 == (c1 % 10) * LimbBase + u[2]
        c3 == (c2 % 10) * LimbBase + u[3]
        c4 == (c3 % 10) * LimbBase + u[4]
    IN  [q |-> <<c1 \div 10, c2 \div 10, c3 \div 10, c4 \div 10>>, r |-> c4 % 10]

\* u * 10 + d modulo 2^64
MulAdd10(u, d) ==
    LET p4 == u[4] * 10 + d
        p3 == u[3] * 10 + (p4 \div LimbBase)
        p2 == u[2] * 10 + (p3 \div LimbBase)
        p1 == u[1] * 10 + (p2 \div LimbBase)
    IN  <<p1 % LimbBase, p2 % LimbBase, p3 % LimbBase, p4 % LimbBase>>

DigitChars == <<"0", "1", "2", "3", "4", "5", "6", "7", "8", "9">>

RECURSIVE Digits(_)
Digits(u) ==
    IF u = Zero64 THEN <<>>
    ELSE LET d == DivMod10(u) IN Append(Digits(d.q), DigitChars[d.r + 1])

\* strconv.FormatUint(u, 10)
FormatUint(u) == IF u = Zero64 THEN <<"0">> ELSE Digits(u)

\* strconv.FormatInt(i, 10)
FormatInt(i) == IF IsNeg64(i) THEN <<"-">> \o FormatUint(Neg64(i)) ELSE FormatUint(i)

\* the low `bits` bits of x, sign-extended: (x << (64-bits)) >> (64-bits), arithmetic
SignExtend(x, bits) ==
    LET ones == LimbMax
    IN  CASE bits = 8  -> LET low == x[4] % 256
                          IN  IF low >= 128 THEN <<ones, ones, ones, (LimbBase - 256) + low>>
                              ELSE <<0, 0, 0, low>>
          [] bits = 16 -> IF x[4] >= LimbBase \div 2 THEN <<ones, ones, ones, x[4]>>
                          ELSE <<0, 0, 0, x[4]>>
          [] bits = 32 -> IF x[3] >= LimbBase \div 2 THEN <<ones, ones, x[3], x[4]>>
                          ELSE <<0, 0, x[3], x[4]>>
          [] OTHER     -> x

\* the low `bits` bits of x, zero-extended: (x << (64-bits)) >> (64-bits), logical
ZeroExtend(x, bits) ==
    CASE bits = 8  -> <<0, 0, 0, x[4] % 256>>
      [] bits = 16 -> <<0, 0, 0, x[4]>>
      [] bits = 32 -> <<0, 0, x[3], x[4]>>
      [] OTHER     -> x

\* reflect.Value.OverflowInt for a target of the given width
OverflowInt(i, bits) == i # SignExtend(i, bits)

\* reflect.Value.OverflowUint for a target of the given width
OverflowUint(u, bits) == u # ZeroExtend(u, bits)

\* a / b truncated toward zero, as Go's integer division (b > 0)
TruncDiv(a, b) == IF a >= 0 THEN a \div b ELSE -((-a) \div b)

-----------------------------------------------------------------------------
(* Go types (reflect.Type) *)

NoErr == [e |-> "nil"]
IsErr(err) == err.e # "nil"

NoHook == [recv |-> "none", ret |-> <<>>, err |-> NoErr]

IntKinds == {"int", "int8", "int16", "int32", "int64"}
UintKinds == {"uint", "uint8", "uint16", "uint32", "uint64", "uintptr"}
FloatKinds == {"float32", "float64"}

\* the size in bits of a numeric kind; int, uint and uintptr are 64 bits wide (cgo on darwin/amd64)
KindBits(k) ==
    CASE k \in {"int8", "uint8"} -> 8
      [] k \in {"int16", "uint16"} -> 16
      [] k \in {"int32", "uint32", "float32"} -> 32
      [] k \in {"int", "uint", "uintptr", "int64", "uint64", "float64"} -> 64
      [] OTHER -> 0

\* a type: its kind k, its name ("" when unnamed), the element, key and fields of a
\* composite, its MarshalPlist (mh) and UnmarshalPlist (uh) methods, and for an
\* interface type whether it is the empty interface (open)
TypeOf(k, name) ==
    [k |-> k, name |-> name, len |-> 0, elem |-> <<>>, key |-> <<>>, fields |-> <<>>,
     mh |-> NoHook, uh |-> NoHook, open |-> FALSE]

Basic(k) == TypeOf(k, k)
BoolT == Basic("bool")
IntT == Basic("int")
Int8T == Basic("int8")
Int16T == Basic("int16")
Int32T == Basic("int32")
Int64T == Basic("int64")
UintT == Basic("uint")
Uint8T == Basic("uint8")
Uint16T == Basic("uint16")
Uint32T == Basic("uint32")
Uint64T == Basic("uint64")
Float32T == Basic("float32")
Float64T == Basic("float64")
StringT == Basic("string")
InvalidT == TypeOf("invalid", "")
SliceT(e) == [TypeOf("slice", "") EXCEPT !.elem = <<e>>]
ArrayT(n, e) == [TypeOf("array", "") EXCEPT !.elem = <<e>>, !.len = n]
MapT(kt, e) == [TypeOf("map", "") EXCEPT !.key = <<kt>>, !.elem = <<e>>]
PtrT(e) == [TypeOf("ptr", "") EXCEPT !.elem = <<e>>]
StructT(name, fields) == [TypeOf("struct", name) EXCEPT !.fields = fields]
\* interface{}
AnyT == [TypeOf("iface", "") EXCEPT !.open = TRUE]
\* the interface type error, which none of the default types implements
ClosedIfaceT == TypeOf("iface", "error")

timeType ==
    [TypeOf("struct", "time.Time") EXCEPT !.fields =
        <<[name |-> <<"w", "a", "l", "l">>, tag |-> <<>>, exported |-> FALSE,
           anonymous |-> FALSE, typ |-> Basic("uint64")],
          [name |-> <<"e", "x", "t">>, tag |-> <<>>, exported |-> FALSE,
           anonymous |-> FALSE, typ |-> Basic("int64")]>>]
byteSliceType == SliceT(Uint8T)
stringType == StringT

\* a struct field (reflect.StructField): exported is PkgPath == ""
Field(name, tag, typ) ==
    [name |-> name, tag |-> tag, exported |-> TRUE, anonymous |-> FALSE, typ |-> typ]
Unexported(f) == [f EXCEPT !.exported = FALSE]
Embedded(f) == [f EXCEPT !.anonymous = TRUE]

\* does a value of type t implement Marshaler: the method set of a pointer type
\* holds the methods of both receivers, that of a named type the value receivers
ImplementsMarshaler(t) ==
    IF t.k = "ptr" THEN t.elem[1].mh.recv # "none" ELSE t.mh.recv = "val"
ImplementsUnmarshaler(t) ==
    IF t.k = "ptr" THEN t.elem[1].uh.recv # "none" ELSE t.uh.recv = "val"

-----------------------------------------------------------------------------
(* Go values (reflect.Value) *)

FloatOf(neg, whole, frac) == [cls |-> "fin", neg |-> neg, whole |-> whole, frac |-> frac]
NaN == [cls |-> "nan", neg |-> FALSE, whole |-> Zero64, frac |-> 0]
Inf(neg) == [cls |-> "inf", neg |-> neg, whole |-> Zero64, frac |-> 0]

BoolV(b) == [T |-> BoolT, b |-> b]
IntV(t, i) == [T |-> t, i |-> i]
UintV(t, u) == [T |-> t, u |-> u]
FloatV(t, f) == [T |-> t, f |-> f]
StringV(s) == [T |-> StringT, s |-> s]
TimeV(ticks) == [T |-> timeType, ticks |-> ticks]
SliceV(t, es) == [T |-> t, es |-> es, nil |-> FALSE]
NilSlice(t) == [T |-> t, es |-> <<>>, nil |-> TRUE]
ArrayV(t, es) == [T |-> t, es |-> es]
MapV(t, kv) == [T |-> t, kv |-> kv, nil |-> FALSE]
NilMap(t) == [T |-> t, kv |-> <<>>, nil |-> TRUE]
StructV(t, fs) == [T |-> t, fs |-> fs]
PtrV(t, v) == [T |-> t, ptr |-> <<v>>]
NilPtr(t) == [T |-> t, ptr |-> <<>>]
IfaceV(t, v) == [T |-> t, dyn |-> <<v>>]
NilIface(t) == [T |-> t, dyn |-> <<>>]
\* reflect.ValueOf(nil)
InvalidV == [T |-> InvalidT, z |-> 0]
\* a channel, function or complex value
OpaqueV(t) == [T |-> t, z |-> 0]
BytesV(bs) == SliceV(byteSliceType, [j \in 1..Len(bs) |-> UintV(Uint8T, Small64(bs[j]))])

\* reflect.Zero(t)
RECURSIVE ZeroV(_)
ZeroV(t) ==
    CASE t.k = "bool" -> [T |-> t, b |-> FALSE]
      [] t.k \in IntKinds -> [T |-> t, i |-> Zero64]
      [] t.k \in UintKinds -> [T |-> t, u |-> Zero64]
      [] t.k \in FloatKinds -> [T |-> t, f |-> FloatOf(FALSE, Zero64, 0)]
      [] t.k = "string" -> [T |-> t, s |-> <<>>]
      [] t.k = "slice" -> NilSlice(t)
      [] t.k = "array" -> [T |-> t, es |-> [j \in 1..t.len |-> ZeroV(t.elem[1])]]
      [] t.k = "map" -> NilMap(t)
      [] t.k = "struct" ->
            IF t = timeType THEN [T |-> t, ticks |-> 0]
            ELSE [T |-> t, fs |-> [j \in 1..Len(t.fields) |-> ZeroV(t.fields[j].typ)]]
      [] t.k = "ptr" -> NilPtr(t)
      [] t.k = "iface" -> NilIface(t)
      [] OTHER -> OpaqueV(t)

\* the keys of a key/value list, in order
Keys(kv) == [j \in 1..Len(kv) |-> kv[j].key]
HasKey(kv, key) == \E j \in 1..Len(kv) : kv[j].key = key
Lookup(kv, key) == kv[CHOOSE j \in 1..Len(kv) : kv[j].key = key].val
\* reflect.Value.SetMapIndex / CFDictionary insertion: replace the entry or add one
SetKey(kv, key, val) ==
    IF HasKey(kv, key)
    THEN [j \in 1..Len(kv) |-> IF kv[j].key = key THEN [key |-> key, val |-> val] ELSE kv[j]]
    ELSE Append(kv, [key |-> key, val |-> val])

-----------------------------------------------------------------------------
(* CoreFoundation objects (cfTypeRef) *)

CFNil == [t |-> "nil"]
CFBool(b) == [t |-> "CFBoolean", b |-> b]
\* a CFNumber created with kCFNumberSInt64Type
CFInt(i) == [t |-> "CFNumber", i |-> i]
\* a CFNumber created with kCFNumberDoubleType
CFDouble(f) == [t |-> "CFNumber", f |-> f]
CFStr(s) == [t |-> "CFString", s |-> s]
CFDataOf(bs) == [t |-> "CFData", bs |-> bs]
\* a CFDate, as milliseconds since the Unix epoch
CFDateOf(ms) == [t |-> "CFDate", ms |-> ms]
CFArr(es) == [t |-> "CFArray", es |-> es]
CFDict(kv) == [t |-> "CFDictionary", kv |-> kv]
IsDouble(cf) == "f" \in DOMAIN cf

-----------------------------------------------------------------------------
(* errors *)

UnsupportedTypeError(t) == [e |-> "UnsupportedTypeError", Type |-> t]
UnsupportedValueError(str) == [e |-> "UnsupportedValueError", Str |-> str]
UnknownCFTypeError(id) == [e |-> "UnknownCFTypeError", id |-> id]
UnmarshalTypeError(value, t) == [e |-> "UnmarshalTypeError", Value |-> value, Type |-> t]
UnmarshalFieldError(key, t, f) == [e |-> "UnmarshalFieldError", Key |-> key, Type |-> t, Field |-> f]
\* Type is nil for Unmarshal(nil): the argument's type, as zero or one type
InvalidUnmarshalError(ts) == [e |-> "InvalidUnmarshalError", ArgType |-> ts]
CFError == [e |-> "CFError"]
ErrorsNew(msg) == [e |-> "error", msg |-> msg]
\* a run-time panic
Panic(msg) == [e |-> "panic", msg |-> msg]

-----------------------------------------------------------------------------
(* convert.go: the basic conversion of a Go value to a CoreFoundation object *)

\* the result of a conversion: the object, the error, and the descriptor cache after it
Ok(cf, cache) == [cf |-> cf, err |-> NoErr, cache |-> cache]
Fail(err, cache) == [cf |-> CFNil, err |-> err, cache |-> cache]

\* a byte that is no valid UTF-8
BadByte == "<ff>"

\* convertStringToCFString: the CFString, or nothing (NULL) for invalid UTF-8
convertStringToCFString(str) ==
    IF \E j \in 1..Len(str) : str[j] = BadByte THEN <<>> ELSE <<CFStr(str)>>

convertCFStringToString(cfStr) == cfStr.s

\* convertBytesToCFData, applied to the []byte behind a slice value
convertBytesToCFData(v) == CFDataOf([j \in 1..Len(v.es) |-> v.es[j].u[4]])

convertCFDataToBytes(cfData) == BytesV(cfData.bs)

TicksPerMs == 4
TicksPerSec == 1000 * TicksPerMs

\* time.Time counts TicksPerMs ticks to the millisecond; a CFDate whole milliseconds

\* convertTimeToCFDate: truncate to milliseconds
convertTimeToCFDate(v) == CFDateOf(TruncDiv(v.ticks, TicksPerMs))

convertCFDateToTime(cfDate) == TimeV(cfDate.ms * TicksPerMs)

convertBoolToCFBoolean(b) == CFBool(b)
convertInt64ToCFNumber(i) == CFInt(i)
\* the uint32 is widened to an SInt64
convertUInt32ToCFNumber(u) == CFInt(ZeroExtend(u, 32))
convertFloat64ToCFNumber(f) == CFDouble(f)

\* the value of a finite float truncated toward zero, as CFNumberGetValue converts a double
FloatToInt64(f) == IF f.neg THEN Neg64(f.whole) ELSE f.whole
\* the float nearest an integer (exact below 2^53)
Int64ToFloat(i) == IF IsNeg64(i) THEN FloatOf(TRUE, Neg64(i), 0) ELSE FloatOf(FALSE, i, 0)

\* what CFNumberGetValue(kCFNumberSInt32Type) would read: the low 32 bits, sign-extended
convertCFNumberToInt32(cfNumber) ==
    SignExtend(IF IsDouble(cfNumber) THEN FloatToInt64(cfNumber.f) ELSE cfNumber.i, 32)

\* convertCFNumberToInt64: CFNumberGetValue(kCFNumberSInt64Type)
convertCFNumberToInt64(cfNumber) ==
    IF IsDouble(cfNumber) THEN FloatToInt64(cfNumber.f) ELSE cfNumber.i

\* convertCFNumberToUInt32: the SInt64 value cut to 32 bits
convertCFNumberToUInt32(cfNumber) == ZeroExtend(convertCFNumberToInt64(cfNumber), 32)

\* convertCFNumberToFloat64: CFNumberGetValue(kCFNumberDoubleType)
convertCFNumberToFloat64(cfNumber) ==
    IF IsDouble(cfNumber) THEN cfNumber.f ELSE Int64ToFloat(cfNumber.i)

\* strconv.FormatFloat(f, 'g', -1, bits) of a float that is not finite
FormatSpecial(f) == IF f.cls = "nan" THEN "NaN" ELSE IF f.neg THEN "-Inf" ELSE "+Inf"

\* createCFDictionary: the length assertion, then CFDictionaryCreate (a key given
\* twice keeps its first value)
RECURSIVE AddAll(_, _, _)
AddAll(kv, keys, values) ==
    IF keys = <<>> THEN kv
    ELSE AddAll(IF HasKey(kv, Head(keys)) THEN kv
                ELSE Append(kv, [key |-> Head(keys), val |-> Head(values)]),
                Tail(keys), Tail(values))

createCFDictionary(keys, values, cache) ==
    IF Len(keys) # Len(values)
    THEN Fail(Panic("plist: unexpected length difference between keys and values"), cache)
    ELSE Ok(CFDict(AddAll(<<>>, [j \in 1..Len(keys) |-> keys[j].s], values)), cache)

-----------------------------------------------------------------------------
(* marshal.go: struct tags and the descriptor cache *)

\* strings.Index(s, ","), 1-based; Len(s) + 1 when there is no comma
CommaAt(s) ==
    IF \E j \in 1..Len(s) : s[j] = ","
    THEN CHOOSE j \in 1..Len(s) : s[j] = "," /\ \A h \in 1..(j - 1) : s[h] # ","
    ELSE Len(s) + 1

\* parseTag: the name before the first comma and the options after it
parseTag(tag) ==
    [name |-> SubSeq(tag, 1, CommaAt(tag) - 1), opts |-> SubSeq(tag, CommaAt(tag) + 1, Len(tag))]

\* tagOptions.Contains: is optionName one of the comma-separated options
RECURSIVE Contains(_, _)
Contains(opts, optionName) ==
    IF opts = <<>> THEN FALSE
    ELSE \/ SubSeq(opts, 1, CommaAt(opts) - 1) = optionName
         \/ Contains(SubSeq(opts, CommaAt(opts) + 1, Len(opts)), optionName)

UpperChars == <<"A", "B", "I", "M", "O", "R", "S", "T", "V", "X", "Y", "Z">>
LowerChars == <<"a", "b", "i", "m", "o", "r", "s", "t", "v", "x", "y", "z">>
Letters == {UpperChars[j] : j \in 1..Len(UpperChars)} \cup {LowerChars[j] : j \in 1..Len(LowerChars)}
               \cup {"c", "d", "e", "f", "l", "n", "p", "w"}
\* unicode.IsLetter and unicode.IsDigit on the characters of the model
IsLetter(c) == c \in Letters
IsDigit(c) == c \in {DigitChars[j] : j \in 1..Len(DigitChars)}
\* strings.ContainsRune("!#$%&()*+-./:<=>?@[]^_{|}~", c)
PunctChars == {"!", "#", "$", "%", "&", "(", ")", "*", "+", "-", ".", "/", ":", "<", "=",
               ">", "?", "@", "[", "]", "^", "_", "{", "|", "}", "~"}

\* isValidName: the only case of the switch is the punctuation case, and its body
\* rejects a character that is neither letter nor digit
isValidName(name) ==
    /\ name # <<>>
    /\ \A j \in 1..Len(name) :
          ~(name[j] \in PunctChars /\ ~IsLetter(name[j]) /\ ~IsDigit(name[j]))

OmitEmptyOpt == <<"o", "m", "i", "t", "e", "m", "p", "t", "y">>

\* encodeFields, lines 754-783: the descriptor computed on a cache miss
RECURSIVE computeFields(_, _)
computeFields(t, n) ==
    IF n = 0 THEN <<>>
    ELSE LET f == t.fields[n]
             tag == parseTag(f.tag)
             ef == [i |-> n - 1,
                    name |-> IF f.tag # <<>> /\ isValidName(tag.name) THEN tag.name ELSE f.name,
                    omitEmpty |-> f.tag # <<>> /\ Contains(tag.opts, OmitEmptyOpt)]
         IN  IF ~f.exported \/ f.anonymous \/ f.tag = <<"-">>
             THEN computeFields(t, n - 1)
             ELSE Append(computeFields(t, n - 1), ef)

\* encodeFields: the cached descriptor, or the computed one, which is then cached
encodeFields(t, cache) ==
    IF t \in DOMAIN cache THEN [fs |-> cache[t], cache |-> cache]
    ELSE LET fs == computeFields(t, Len(t.fields))
         IN  [fs |-> fs, cache |-> cache @@ (t :> fs)]

\* the emptiness of scalars alone: every array, slice and map counts as filled
isEmptyScalar(v) ==
    CASE v.T.k = "string" -> Len(v.s) = 0
      [] v.T.k = "bool" -> ~v.b
      [] v.T.k \in IntKinds -> v.i = Zero64
      [] v.T.k \in UintKinds -> v.u = Zero64
      [] v.T.k \in FloatKinds -> v.f.cls = "fin" /\ v.f.whole = Zero64 /\ v.f.frac = 0
      [] v.T.k = "iface" -> v.dyn = <<>>
      [] v.T.k = "ptr" -> v.ptr = <<>>
      [] OTHER -> FALSE

\* isEmptyValue
isEmptyValue(v) ==
    CASE v.T.k \in {"array", "slice"} -> Len(v.es) = 0
      [] v.T.k = "map" -> Len(v.kv) = 0
      [] v.T.k = "string" -> Len(v.s) = 0
      [] v.T.k = "bool" -> ~v.b
      [] v.T.k \in IntKinds -> v.i = Zero64
      [] v.T.k \in UintKinds -> v.u = Zero64
      [] v.T.k \in FloatKinds -> v.f.cls = "fin" /\ v.f.whole = Zero64 /\ v.f.frac = 0
      [] v.T.k = "iface" -> v.dyn = <<>>
      [] v.T.k = "ptr" -> v.ptr = <<>>
      [] OTHER -> FALSE

-----------------------------------------------------------------------------
(* marshal.go and convert.go: the two recursive encoders.  The helper argument   *)
(* of convertSliceToCFArrayHelper / convertMapToCFDictionaryHelper is the name h *)
(* of the encoder; addr is reflect.Value.CanAddr.                                *)

\* the MarshalPlist method a Marshaler value of dynamic type t carries
HookOf(t) == IF t.k = "ptr" THEN t.elem[1].mh ELSE t.mh

RECURSIVE convertValueToCFType(_, _)
RECURSIVE marshalValue(_, _, _)
RECURSIVE marshalStruct(_, _, _)
RECURSIVE marshalStructLoop(_, _, _, _, _, _, _)
RECURSIVE convertSliceToCFArrayHelper(_, _, _, _)
RECURSIVE convertSliceLoop(_, _, _, _, _, _)
RECURSIVE convertMapToCFDictionaryHelper(_, _, _)
RECURSIVE convertMapLoop(_, _, _, _, _, _)

helperCall(h, v, addr, cache) ==
    IF h = "marshalValue" THEN marshalValue(v, addr, cache) ELSE convertValueToCFType(v, cache)

\* convertValueToCFType
convertValueToCFType(v, cache) ==
    LET k == v.T.k IN
    IF k = "invalid" THEN Fail(UnsupportedValueError("invalid value"), cache)
    ELSE CASE k = "bool" -> Ok(convertBoolToCFBoolean(v.b), cache)
      [] k \in IntKinds -> Ok(convertInt64ToCFNumber(v.i), cache)
      [] k \in {"uint8", "uint16", "uint32"} -> Ok(convertUInt32ToCFNumber(v.u), cache)
      [] k \in {"uint", "uintptr"} ->
            \* don't try and convert if uint/uintptr is 64-bits
            IF KindBits(k) < 64 THEN Ok(convertUInt32ToCFNumber(v.u), cache)
            ELSE Fail(UnsupportedTypeError(v.T), cache)
      [] k \in FloatKinds ->
            IF v.f.cls # "fin" THEN Fail(UnsupportedValueError(FormatSpecial(v.f)), cache)
            ELSE Ok(convertFloat64ToCFNumber(v.f), cache)
      [] k = "string" ->
            IF convertStringToCFString(v.s) = <<>>
            THEN Fail(ErrorsNew("plist: could not convert string to CFStringRef"), cache)
            ELSE Ok(convertStringToCFString(v.s)[1], cache)
      [] k = "struct" ->
            IF v.T = timeType THEN Ok(convertTimeToCFDate(v), cache)
            ELSE Fail(UnsupportedTypeError(v.T), cache)
      [] k \in {"array", "slice"} ->
            IF v.T.elem[1].k = "uint8"
            THEN \* v.Interface().([]byte): the assertion fails on any type but []byte
                 IF v.T = byteSliceType THEN Ok(convertBytesToCFData(v), cache)
                 ELSE Fail(Panic("interface conversion: interface {} is not []uint8"), cache)
            ELSE convertSliceToCFArrayHelper(v, "convertValueToCFType", FALSE, cache)
      [] k = "map" -> convertMapToCFDictionaryHelper(v, "convertValueToCFType", cache)
      [] k = "iface" ->
            IF v.dyn = <<>> THEN Fail(UnsupportedValueError("nil interface"), cache)
            ELSE convertValueToCFType(v.dyn[1], cache)
      [] OTHER -> Fail(UnsupportedTypeError(v.T), cache)

\* the loop that goes on to the later elements after an error
RECURSIVE convertSliceLoopOn(_, _, _, _, _, _)
convertSliceLoopOn(es, j, h, addr, acc, cache) ==
    IF j > Len(es) THEN Ok(CFArr(acc), cache)
    ELSE LET Then(r) ==
                 IF IsErr(r.err)
                 THEN Fail(r.err, convertSliceLoopOn(es, j + 1, h, addr, acc, r.cache).cache)
                 ELSE convertSliceLoopOn(es, j + 1, h, addr, Append(acc, r.cf), r.cache)
         IN  Then(helperCall(h, es[j], addr, cache))

\* convertSliceToCFArrayHelper: elementwise, the first error aborts
convertSliceLoop(es, j, h, addr, acc, cache) ==
    IF j > Len(es) THEN Ok(CFArr(acc), cache)
    ELSE LET Then(r) ==
                 IF IsErr(r.err) THEN Fail(r.err, r.cache)
                 ELSE convertSliceLoop(es, j + 1, h, addr, Append(acc, r.cf), r.cache)
         IN  Then(helperCall(h, es[j], addr, cache))

\* an element of a slice is addressable, one of an array only when the array is
convertSliceToCFArrayHelper(slice, h, addr, cache) ==
    IF Len(slice.es) = 0 THEN Ok(CFArr(<<>>), cache)
    ELSE convertSliceLoop(slice.es, 1, h, slice.T.k = "slice" \/ addr, <<>>, cache)

\* convertMapToCFDictionaryHelper: a value got by MapIndex is not addressable
convertMapLoop(kv, j, h, keys, values, cache) ==
    IF j > Len(kv) THEN createCFDictionary(keys, values, cache)
    ELSE IF convertStringToCFString(kv[j].key) = <<>>
         THEN Fail(ErrorsNew("plist: could not convert string to CFStringRef"), cache)
         ELSE LET Then(r) ==
                      IF IsErr(r.err) THEN Fail(r.err, r.cache)
                      ELSE convertMapLoop(kv, j + 1, h,
                                          Append(keys, convertStringToCFString(kv[j].key)[1]),
                                          Append(values, r.cf), r.cache)
              IN  Then(helperCall(h, kv[j].val, FALSE, cache))

convertMapToCFDictionaryHelper(m, h, cache) ==
    IF m.T.key[1].k # "string" THEN Fail(UnsupportedTypeError(m.T), cache)
    ELSE convertMapLoop(m.kv, 1, h, <<>>, <<>>, cache)

\* the loop in which the key of a field is appended before the omit-empty test
RECURSIVE marshalStructLoopKeyed(_, _, _, _, _, _, _)
marshalStructLoopKeyed(v, fields, j, addr, keys, values, cache) ==
    IF j > Len(fields) THEN createCFDictionary(keys, values, cache)
    ELSE LET ef == fields[j]
             fieldValue == v.fs[ef.i + 1]
         IN  IF convertStringToCFString(ef.name) = <<>>
             THEN Fail(ErrorsNew("plist: could not convert string to CFStringRef"), cache)
             ELSE IF ef.omitEmpty /\ isEmptyValue(fieldValue)
             THEN marshalStructLoopKeyed(v, fields, j + 1, addr,
                                         Append(keys, convertStringToCFString(ef.name)[1]),
                                         values, cache)
             ELSE LET Then(r) ==
                          IF IsErr(r.err) THEN Fail(r.err, r.cache)
                          ELSE marshalStructLoopKeyed(v, fields, j + 1, addr,
                                                      Append(keys, convertStringToCFString(ef.name)[1]),
                                                      Append(values, r.cf), r.cache)
                  IN  Then(marshalValue(fieldValue, addr, cache))

\* marshalStruct, lines 684-700
marshalStructLoop(v, fields, j, addr, keys, values, cache) ==
    IF j > Len(fields) THEN createCFDictionary(keys, values, cache)
    ELSE LET ef == fields[j]
             fieldValue == v.fs[ef.i + 1]
         IN  IF ef.omitEmpty /\ isEmptyValue(fieldValue)
             THEN marshalStructLoop(v, fields, j + 1, addr, keys, values, cache)
             ELSE IF convertStringToCFString(ef.name) = <<>>
             THEN Fail(ErrorsNew("plist: could not convert string to CFStringRef"), cache)
             ELSE LET Then(r) ==
                          IF IsErr(r.err) THEN Fail(r.err, r.cache)
                          ELSE marshalStructLoop(v, fields, j + 1, addr,
                                                 Append(keys, convertStringToCFString(ef.name)[1]),
                                                 Append(values, r.cf), r.cache)
                  IN  Then(marshalValue(fieldValue, addr, cache))

marshalStruct(v, addr, cache) ==
    LET Then(d) == marshalStructLoop(v, d.fs, 1, addr, <<>>, <<>>, d.cache)
    IN  Then(encodeFields(v.T, cache))

\* the search that takes the address of every value, addressable or not
marshalerOfAddr(v, addr) ==
    LET dynT == IF v.T.k = "iface" THEN v.dyn[1].T ELSE v.T
    IN  IF ImplementsMarshaler(dynT) THEN <<HookOf(dynT)>>
        ELSE IF v.T.k # "ptr" /\ ImplementsMarshaler(PtrT(v.T)) THEN <<HookOf(PtrT(v.T))>>
        ELSE <<>>

\* marshalValue, lines 623-638: the Marshaler found on the value or on its address
marshalerOf(v, addr) ==
    LET dynT == IF v.T.k = "iface" THEN v.dyn[1].T ELSE v.T
    IN  IF ImplementsMarshaler(dynT) THEN <<HookOf(dynT)>>
        ELSE IF v.T.k # "ptr" /\ addr /\ ImplementsMarshaler(PtrT(v.T)) THEN <<HookOf(PtrT(v.T))>>
        ELSE <<>>

\* the receiver is a nil pointer held in an interface
NilReceiver(v) == v.T.k = "iface" /\ v.dyn[1].T.k = "ptr" /\ v.dyn[1].ptr = <<>>

\* reflect.ValueOf(obj) of what MarshalPlist returned
ValueOfHook(m) == IF m.ret = <<>> THEN InvalidV ELSE m.ret[1]

\* the call in which what MarshalPlist returns is marshalled like any other value
callMarshalerAgain(m, v, cache) ==
    IF NilReceiver(v) /\ m.recv = "val"
    THEN Fail(Panic("value method called using nil pointer"), cache)
    ELSE IF IsErr(m.err) THEN Fail(m.err, cache)
    ELSE marshalValue(ValueOfHook(m), FALSE, cache)

\* marshalValue, lines 632-638: MarshalPlist is called and what it returns converted
callMarshaler(m, v, cache) ==
    IF NilReceiver(v) /\ m.recv = "val"
    THEN Fail(Panic("value method called using nil pointer"), cache)
    ELSE IF IsErr(m.err) THEN Fail(m.err, cache)
    ELSE convertValueToCFType(ValueOfHook(m), cache)

\* marshalValue
marshalValue(v, addr, cache) ==
    LET k == v.T.k IN
    IF k = "invalid" THEN Fail(UnsupportedValueError("invalid value"), cache)
    ELSE IF k = "ptr" /\ v.ptr = <<>> THEN Fail(UnsupportedValueError("nil pointer"), cache)
    ELSE IF k = "iface" /\ v.dyn = <<>> THEN Fail(UnsupportedValueError("nil interface"), cache)
    ELSE IF marshalerOf(v, addr) # <<>>
    THEN callMarshaler(marshalerOf(v, addr)[1], v, cache)
    ELSE CASE k \in {"slice", "array"} ->
            IF v.T = byteSliceType THEN Ok(convertBytesToCFData(v), cache)
            ELSE convertSliceToCFArrayHelper(v, "marshalValue", addr, cache)
      [] k = "map" -> convertMapToCFDictionaryHelper(v, "marshalValue", cache)
      [] k = "struct" ->
            IF v.T = timeType THEN Ok(convertTimeToCFDate(v), cache)
            ELSE marshalStruct(v, addr, cache)
      [] k = "ptr" -> marshalValue(v.ptr[1], TRUE, cache)
      [] k = "iface" -> marshalValue(v.dyn[1], FALSE, cache)
      [] OTHER -> convertValueToCFType(v, cache)

-----------------------------------------------------------------------------
(* plist.go: the CoreFoundation codec.  Bytes are modelled by what the codec *)
(* reads back from them: nothing for bytes that are no property list.        *)

OpenStepFormat == 1
XMLFormat == 100
BinaryFormat == 200
Formats == {OpenStepFormat, XMLFormat, BinaryFormat}

NoBytes == [valid |-> FALSE, fmt |-> 0, plist |-> <<>>]
\* bytes that are no property list in any format
GarbageBytes == [valid |-> FALSE, fmt |-> 0, plist |-> <<CFNil>>]

\* cfPropertyListCreateData
cfPropertyListCreateData(plist, format) ==
    [bytes |-> [valid |-> TRUE, fmt |-> format, plist |-> <<plist>>], err |-> NoErr]

\* cfPropertyListCreateWithData
cfPropertyListCreateWithData(bytes) ==
    IF bytes.valid THEN [cfObj |-> bytes.plist[1], format |-> bytes.fmt, err |-> NoErr]
    ELSE [cfObj |-> CFNil, format |-> 0, err |-> CFError]

\* Marshal
Marshal(v, format, cache) ==
    LET Encoded(cache2, e) == [bytes |-> e.bytes, err |-> e.err, cache |-> cache2]
        Then(r) ==
            IF IsErr(r.err) THEN [bytes |-> NoBytes, err |-> r.err, cache |-> r.cache]
            ELSE Encoded(r.cache, cfPropertyListCreateData(r.cf, format))
    IN  Then(marshalValue(v, FALSE, cache))

-----------------------------------------------------------------------------
(* convert.go: a CoreFoundation object to its generic Go form *)

\* convertCFNumberToInterface: an SInt64 number as int64, a double as float64
convertCFNumberToInterface(cfNumber) ==
    IF IsDouble(cfNumber) THEN FloatV(Float64T, cfNumber.f) ELSE IntV(Int64T, cfNumber.i)

RECURSIVE convertCFTypeToInterface(_)
RECURSIVE convertCFArrayToSlice(_, _, _)
RECURSIVE convertCFDictionaryToMap(_, _, _)

\* the result of convertCFTypeToInterface: the value held in an interface{}, or an error
Got(v) == [v |-> v, err |-> NoErr]
NotGot(err) == [v |-> InvalidV, err |-> err]

\* convertCFArrayToSlice, lines 1040-1047
convertCFArrayToSlice(es, j, acc) ==
    IF j > Len(es) THEN Got(SliceV(SliceT(AnyT), acc))
    ELSE LET Then(r) ==
                 IF IsErr(r.err) THEN NotGot(r.err)
                 ELSE convertCFArrayToSlice(es, j + 1, Append(acc, IfaceV(AnyT, r.v)))
         IN  Then(convertCFTypeToInterface(es[j]))

\* convertCFDictionaryToMap, lines 1117-1130
convertCFDictionaryToMap(kv, j, acc) ==
    IF j > Len(kv) THEN Got(MapV(MapT(StringT, AnyT), acc))
    ELSE LET Then(r) ==
                 IF IsErr(r.err) THEN NotGot(r.err)
                 ELSE convertCFDictionaryToMap(kv, j + 1,
                                               SetKey(acc, kv[j].key, IfaceV(AnyT, r.v)))
         IN  Then(convertCFTypeToInterface(kv[j].val))

\* convertCFTypeToInterface
convertCFTypeToInterface(cfType) ==
    CASE cfType.t = "CFString" -> Got(StringV(convertCFStringToString(cfType)))
      [] cfType.t = "CFNumber" -> Got(convertCFNumberToInterface(cfType))
      [] cfType.t = "CFBoolean" -> Got(BoolV(cfType.b))
      [] cfType.t = "CFData" -> Got(convertCFDataToBytes(cfType))
      [] cfType.t = "CFDate" -> Got(convertCFDateToTime(cfType))
      [] cfType.t = "CFArray" ->
            IF Len(cfType.es) = 0 THEN Got(SliceV(SliceT(AnyT), <<>>))
            ELSE convertCFArrayToSlice(cfType.es, 1, <<>>)
      [] cfType.t = "CFDictionary" ->
            \* &cfKeys[0] of a buffer of length count
            IF Len(cfType.kv) = 0 THEN NotGot(Panic("index out of range"))
            ELSE convertCFDictionaryToMap(cfType.kv, 1, <<>>)
      [] OTHER -> NotGot(UnknownCFTypeError(cfType.t))

-----------------------------------------------------------------------------
(* marshal.go: Unmarshal *)

\* the case folding of a character
FoldChar(c) ==
    IF \E j \in 1..Len(UpperChars) : UpperChars[j] = c
    THEN LowerChars[CHOOSE j \in 1..Len(UpperChars) : UpperChars[j] = c]
    ELSE c

\* strings.EqualFold
EqualFold(a, b) ==
    Len(a) = Len(b) /\ \A j \in 1..Len(a) : FoldChar(a[j]) = FoldChar(b[j])

\* the underlying type of a type
Underlying(t) ==
    IF t.k \in {"slice", "array", "map", "struct", "ptr", "iface", "chan", "func"}
    THEN [t EXCEPT !.name = "", !.mh = NoHook, !.uh = NoHook]
    ELSE Basic(t.k)

\* reflect.Type.AssignableTo, for a source type without methods
AssignableTo(src, dst) ==
    \/ src = dst
    \/ dst.k = "iface" /\ dst.open
    \/ dst.k # "iface" /\ Underlying(src) = Underlying(dst) /\ (src.name = "" \/ dst.name = "")

\* the map in which a number is given a float64
cfTypeMapFloat(typeID) ==
    CASE typeID = "CFArray" -> <<SliceT(AnyT)>>
      [] typeID = "CFBoolean" -> <<BoolT>>
      [] typeID = "CFData" -> <<byteSliceType>>
      [] typeID = "CFDate" -> <<timeType>>
      [] typeID = "CFDictionary" -> <<MapT(StringT, AnyT)>>
      [] typeID = "CFNumber" -> <<Float64T>>
      [] typeID = "CFString" -> <<StringT>>
      [] OTHER -> <<>>

\* cfTypeMap: the type stored in an empty interface for each kind of object
cfTypeMap(typeID) ==
    CASE typeID = "CFArray" -> <<SliceT(AnyT)>>
      [] typeID = "CFBoolean" -> <<BoolT>>
      [] typeID = "CFData" -> <<byteSliceType>>
      [] typeID = "CFDate" -> <<timeType>>
      [] typeID = "CFDictionary" -> <<MapT(StringT, AnyT)>>
      [] typeID = "CFNumber" -> <<Int64T>>
      [] typeID = "CFString" -> <<StringT>>
      [] OTHER -> <<>>

\* cfTypeNames
cfTypeNames(typeID) == <<typeID>>

\* the accumulator in which the last error wins
recordErrorLast(st, err) == err

\* unmarshalState.recordError
recordError(st, err) == IF st.e = "nil" THEN err ELSE st

\* the search in which a case-insensitive match replaces the match found before it
RECURSIVE matchFieldLast(_, _, _, _)
matchFieldLast(fields, key, j, f) ==
    IF j > Len(fields) THEN f
    ELSE LET sf == fields[j] IN
         IF sf.tag = <<"-">> \/ sf.anonymous THEN matchFieldLast(fields, key, j + 1, f)
         ELSE IF parseTag(sf.tag).name = key THEN j
         ELSE IF sf.name = key THEN matchFieldLast(fields, key, j + 1, j)
         ELSE IF EqualFold(sf.name, key) THEN matchFieldLast(fields, key, j + 1, j)
         ELSE matchFieldLast(fields, key, j + 1, f)

\* unmarshalValue, lines 1002-1029: the field a dictionary key selects (0: none)
RECURSIVE matchField(_, _, _, _)
matchField(fields, key, j, f) ==
    IF j > Len(fields) THEN f
    ELSE LET sf == fields[j] IN
         IF sf.tag = <<"-">> \/ sf.anonymous THEN matchField(fields, key, j + 1, f)
         ELSE IF parseTag(sf.tag).name = key THEN j
         ELSE IF sf.name = key THEN matchField(fields, key, j + 1, j)
         ELSE IF f = 0 /\ EqualFold(sf.name, key) THEN matchField(fields, key, j + 1, j)
         ELSE matchField(fields, key, j + 1, f)

\* the result of unmarshalValue: the value now in the target's storage, the error
\* returned, and unmarshalState.err
UR(v, err, st) == [v |-> v, err |-> err, st |-> st]

Mismatch(cfObj, v, t, st) ==
    UR(v, NoErr, recordError(st, UnmarshalTypeError(cfTypeNames(cfObj.t), t)))

\* vSetter.Set(x): x as stored in a setter of type setterT; Set panics when the
\* type of x is not assignable to it
SetValue(x, v, setterT, st) ==
    IF ~AssignableTo(x.T, setterT)
    THEN UR(v, Panic("reflect.Set: value is not assignable to type"), st)
    ELSE UR(IF setterT.k = "iface" THEN x ELSE [x EXCEPT !.T = setterT], NoErr, st)

\* reflect.Value.OverflowFloat: a finite float beyond the range of float32
OverflowFloat(f, bits) == bits = 32 /\ f.cls = "huge"

\* what an UnmarshalPlist with a pointer receiver assigns through it: fixed fields
\* (*u = unmarshaler{true}), or its argument and one more call counted
\* (u.Plist = plist; u.Calls++)
SetsFields(fs) == [stores |-> "fields", fs |-> fs]
StoresPlist == [stores |-> "plist", fs |-> <<>>]

\* UnmarshalPlist(plist) called on a receiver holding x: the value the receiver holds
\* after
ApplyHook(h, x, plist) ==
    IF h.recv # "ptr" \/ h.ret = <<>> THEN x
    ELSE IF h.ret[1].stores = "plist"
    THEN [x EXCEPT !.fs = <<IfaceV(AnyT, plist), IntV(IntT, Add64(x.fs[2].i, Small64(1)))>>]
    ELSE [x EXCEPT !.fs = h.ret[1].fs]

UnmarshalerOf(t) == IF t.k = "ptr" THEN t.elem[1].uh ELSE t.uh

\* unmarshalValue, lines 890-899: v itself is an Unmarshaler (direct), or v is of a
\* named type, addressable, and its address is one
DirectUnmarshaler(v) ==
    /\ v.T.k = "iface" => v.dyn # <<>>
    /\ ImplementsUnmarshaler(IF v.T.k = "iface" THEN v.dyn[1].T ELSE v.T)

AddrUnmarshaler(v, addr) ==
    v.T.k # "ptr" /\ v.T.name # "" /\ addr /\ ImplementsUnmarshaler(PtrT(v.T))

\* unmarshalValue, lines 906-910: a nil pointer is allocated, then UnmarshalPlist runs
callHook(v, addr, st, direct, plist) ==
    IF v.T.k = "ptr" THEN
        IF v.ptr = <<>> /\ ~addr
        THEN UR(v, Panic("reflect.Value.Set using unaddressable value"), st)
        ELSE UR(PtrV(v.T, ApplyHook(UnmarshalerOf(v.T),
                                    IF v.ptr = <<>> THEN ZeroV(v.T.elem[1]) ELSE v.ptr[1],
                                    plist)),
                UnmarshalerOf(v.T).err, st)
    ELSE IF ~direct THEN UR(ApplyHook(v.T.uh, v, plist), v.T.uh.err, st)
    ELSE IF v.T.k = "iface" /\ v.dyn[1].T.k = "ptr" THEN
        IF v.dyn[1].ptr = <<>>
        THEN IF UnmarshalerOf(v.dyn[1].T).recv = "val" \/ UnmarshalerOf(v.dyn[1].T).ret # <<>>
             THEN UR(v, Panic("invalid memory address or nil pointer dereference"), st)
             ELSE UR(v, UnmarshalerOf(v.dyn[1].T).err, st)
        ELSE UR(IfaceV(v.T, PtrV(v.dyn[1].T,
                                 ApplyHook(UnmarshalerOf(v.dyn[1].T), v.dyn[1].ptr[1],
                                           plist))),
                UnmarshalerOf(v.dyn[1].T).err, st)
    ELSE UR(v, (IF v.T.k = "iface" THEN v.dyn[1].T.uh ELSE v.T.uh).err, st)

\* unmarshalValue, lines 900-911: the object is converted for the Unmarshaler first
callUnmarshaler(cfObj, v, addr, st, direct) ==
    LET Then(g) ==
            IF IsErr(g.err) THEN UR(v, g.err, st) ELSE callHook(v, addr, st, direct, g.v)
    IN  Then(convertCFTypeToInterface(cfObj))

RECURSIVE unmarshalValue(_, _, _, _)
RECURSIVE decodeValue(_, _, _, _)
RECURSIVE convertCFArrayToSliceHelper(_, _, _, _, _)
RECURSIVE convertCFDictionaryToMapHelper(_, _, _, _, _, _)

\* what a callback of an array walk returns: go on or stop, the value now in the
\* target's storage, the error, and unmarshalState.err
CB(cont, v, err, st) == [cont |-> cont, v |-> v, err |-> err, st |-> st]

\* unmarshalValue, lines 952-955: the element is decoded into w.Index(idx)
arrayElement(elem, idx, w, elemAddr, st) ==
    LET Then(r) == CB(~IsErr(r.err), [w EXCEPT !.es[idx + 1] = r.v], r.err, r.st)
    IN  Then(unmarshalValue(elem, w.es[idx + 1], elemAddr, st))

\* unmarshalValue, lines 945-956: the callback for element idx (from 0) of count
arrayCallback(elem, idx, count, v, elemAddr, st) ==
    IF idx = 0 /\ v.T.k = "slice"
    THEN arrayElement(elem, idx, SliceV(v.T, [h \in 1..count |-> ZeroV(v.T.elem[1])]),
                      elemAddr, st)
    ELSE IF v.T.k = "array" /\ idx >= Len(v.es) THEN CB(FALSE, v, NoErr, st)
    ELSE arrayElement(elem, idx, v, elemAddr, st)

\* convertCFArrayToSliceHelper: the callback is called for each element in order,
\* until it returns false or an error
convertCFArrayToSliceHelper(es, j, v, elemAddr, st) ==
    IF j > Len(es) THEN UR(v, NoErr, st)
    ELSE LET Then(r) ==
                 IF ~r.cont THEN UR(r.v, r.err, r.st)
                 ELSE convertCFArrayToSliceHelper(es, j + 1, r.v, elemAddr, r.st)
         IN  Then(arrayCallback(es[j], j - 1, Len(es), v, elemAddr, st))

\* unmarshalValue, lines 988-996: the callback that decodes a pair into a map
mapCallback(key, value, v, st) ==
    LET Then(r) ==
            IF IsErr(r.err) THEN UR(v, r.err, r.st)
            ELSE UR([v EXCEPT !.kv = SetKey(v.kv, key, r.v.ptr[1])], NoErr, r.st)
    IN  Then(unmarshalValue(value, PtrV(PtrT(v.T.elem[1]), ZeroV(v.T.elem[1])), FALSE, st))

\* the handling of a field error as if it were a mismatch: recorded, and the walk goes on
structFieldRecorded(key, value, v, f, fieldAddr, st) ==
    IF f = 0 THEN UR(v, NoErr, st)
    ELSE IF ~v.T.fields[f].exported
    THEN UR(v, NoErr, recordError(st, UnmarshalFieldError(key, v.T, v.T.fields[f])))
    ELSE LET Then(r) == UR([v EXCEPT !.fs[f] = r.v], r.err, r.st)
         IN  Then(unmarshalValue(value, v.fs[f], fieldAddr, st))

\* unmarshalValue, lines 1030-1040: the pair is decoded into the field f found (0: none)
structField(key, value, v, f, fieldAddr, st) ==
    IF f = 0 THEN UR(v, NoErr, st)
    ELSE IF ~v.T.fields[f].exported
    THEN UR(v, UnmarshalFieldError(key, v.T, v.T.fields[f]), st)
    ELSE LET Then(r) == UR([v EXCEPT !.fs[f] = r.v], r.err, r.st)
         IN  Then(unmarshalValue(value, v.fs[f], fieldAddr, st))

\* unmarshalValue, lines 998-1041: the callback that decodes a pair into a struct
structCallback(key, value, v, fieldAddr, st) ==
    structField(key, value, v, matchField(v.T.fields, key, 1, 0), fieldAddr, st)

\* convertCFDictionaryToMapHelper: the callback cb is called for each pair in the
\* dictionary's enumeration order, until it returns an error
convertCFDictionaryToMapHelper(kv, j, cb, v, addr, st) ==
    IF j > Len(kv) THEN UR(v, NoErr, st)
    ELSE LET Then(r) ==
                 IF IsErr(r.err) THEN r
                 ELSE convertCFDictionaryToMapHelper(kv, j + 1, cb, r.v, addr, r.st)
         IN  Then(IF cb = "map" THEN mapCallback(kv[j].key, kv[j].val, v, st)
                  ELSE structCallback(kv[j].key, kv[j].val, v, addr, st))

\* unmarshalValue, lines 1047-1058: the number as int64 into a signed integer
decodeInt(i, v, setterT, st) ==
    IF OverflowInt(i, KindBits(v.T.k))
    THEN UR(v, NoErr, recordError(st,
            UnmarshalTypeError(cfTypeNames("CFNumber") \o <<" ">> \o FormatInt(i), v.T)))
    ELSE IF setterT.k = "iface" THEN SetValue(IntV(Int64T, i), v, setterT, st)
    ELSE UR(IntV(v.T, i), NoErr, st)

\* unmarshalValue, lines 1059-1070: the number as uint64 into an unsigned integer
decodeUint(u, v, setterT, st) ==
    IF OverflowUint(u, KindBits(v.T.k))
    THEN UR(v, NoErr, recordError(st,
            UnmarshalTypeError(cfTypeNames("CFNumber") \o <<" ">> \o FormatUint(u), v.T)))
    ELSE IF setterT.k = "iface" THEN SetValue(UintV(Uint64T, u), v, setterT, st)
    ELSE UR(UintV(v.T, u), NoErr, st)

\* unmarshalValue, lines 1071-1082: the number as float64 into a float
decodeFloat(f, v, setterT, st) ==
    IF OverflowFloat(f, KindBits(v.T.k))
    THEN UR(v, NoErr, recordError(st,
            UnmarshalTypeError(cfTypeNames("CFNumber") \o <<" ", "huge">>, v.T)))
    ELSE IF setterT.k = "iface" THEN SetValue(FloatV(Float64T, f), v, setterT, st)
    ELSE UR(FloatV(v.T, f), NoErr, st)

\* unmarshalValue, lines 971-976 and 1094: the case ends without a return
decodeDate(cfObj, v, setterT, st) ==
    LET Then(r) == IF IsErr(r.err) THEN r ELSE UR(r.v, UnknownCFTypeError(cfObj.t), st)
    IN  Then(SetValue(convertCFDateToTime(cfObj), v, setterT, st))

\* unmarshalValue, lines 939-1094: the switch on the object's type id; v is the
\* value the object is decoded into and setterT the type of vSetter, the interface
\* v was taken out of or else v itself
decodeValue(cfObj, v, setterT, st) ==
    CASE cfObj.t = "CFArray" ->
            IF v.T.k \notin {"slice", "array"} THEN Mismatch(cfObj, v, v.T, st)
            ELSE \* an element of a slice is addressable, one of an array only when
                 \* the array is
                 convertCFArrayToSliceHelper(cfObj.es, 1, v,
                                             v.T.k = "slice" \/ setterT.k # "iface", st)
      [] cfObj.t = "CFBoolean" ->
            IF v.T.k # "bool" THEN Mismatch(cfObj, v, v.T, st)
            ELSE SetValue(BoolV(cfObj.b), v, setterT, st)
      [] cfObj.t = "CFData" ->
            IF ~AssignableTo(byteSliceType, v.T) THEN Mismatch(cfObj, v, v.T, st)
            ELSE SetValue(convertCFDataToBytes(cfObj), v, setterT, st)
      [] cfObj.t = "CFDate" ->
            IF ~AssignableTo(timeType, v.T) THEN Mismatch(cfObj, v, v.T, st)
            ELSE decodeDate(cfObj, v, setterT, st)
      [] cfObj.t = "CFDictionary" ->
            IF v.T.k = "map"
            THEN IF ~AssignableTo(stringType, v.T.key[1])
                 THEN UR(v, NoErr, recordError(st,
                         UnmarshalTypeError(cfTypeNames("CFString"), v.T.key[1])))
                 ELSE convertCFDictionaryToMapHelper(cfObj.kv, 1, "map",
                          IF v.nil THEN MapV(v.T, <<>>) ELSE v, FALSE, st)
            ELSE IF v.T.k = "struct"
            THEN convertCFDictionaryToMapHelper(cfObj.kv, 1, "struct", v,
                                                setterT.k # "iface", st)
            ELSE Mismatch(cfObj, v, v.T, st)
      [] cfObj.t = "CFNumber" ->
            CASE v.T.k \in IntKinds -> decodeInt(convertCFNumberToInt64(cfObj), v, setterT, st)
              [] v.T.k \in UintKinds -> decodeUint(convertCFNumberToUInt32(cfObj), v, setterT, st)
              [] v.T.k \in FloatKinds ->
                    decodeFloat(convertCFNumberToFloat64(cfObj), v, setterT, st)
              [] OTHER -> Mismatch(cfObj, v, v.T, st)
      [] cfObj.t = "CFString" ->
            IF v.T.k # "string" THEN Mismatch(cfObj, v, v.T, st)
            ELSE SetValue(StringV(convertCFStringToString(cfObj)), v, setterT, st)
      [] OTHER -> UR(v, UnknownCFTypeError(cfObj.t), st)

\* unmarshalValue, lines 933-937: the value an interface target is decoded into, a
\* zero value of the type picked for the object when the interface is nil
HeldValue(cfObj, v) ==
    IF v.T.k # "iface" THEN v
    ELSE IF v.dyn = <<>> THEN ZeroV(cfTypeMap(cfObj.t)[1])
    ELSE v.dyn[1]

\* unmarshalValue
unmarshalValue(cfObj, v, addr, st) ==
    IF DirectUnmarshaler(v) \/ AddrUnmarshaler(v, addr)
    THEN callUnmarshaler(cfObj, v, addr, st, DirectUnmarshaler(v))
    ELSE IF v.T.k = "ptr" THEN
        IF v.ptr = <<>> /\ ~addr
        THEN UR(v, Panic("reflect.Value.Set using unaddressable value"), st)
        ELSE LET Then(r) == UR(PtrV(v.T, r.v), r.err, r.st)
             IN  Then(unmarshalValue(cfObj,
                          IF v.ptr = <<>> THEN ZeroV(v.T.elem[1]) ELSE v.ptr[1], TRUE, st))
    ELSE IF ~addr THEN UR(v, Panic("reflect.Value.Addr of unaddressable value"), st)
    ELSE IF v.T.k = "iface" /\ v.dyn = <<>> /\ cfTypeMap(cfObj.t) = <<>>
    THEN UR(v, UnknownCFTypeError(cfObj.t), st)
    ELSE IF v.T.k = "iface" /\ v.dyn = <<>> /\ ~AssignableTo(cfTypeMap(cfObj.t)[1], v.T)
    THEN Mismatch(cfObj, v, v.T, st)
    ELSE LET Then(r) == IF v.T.k = "iface" THEN UR(IfaceV(v.T, r.v), r.err, r.st) ELSE r
         IN  Then(decodeValue(cfObj, HeldValue(cfObj, v), v.T, st))

\* Unmarshal: the value now behind v, the format and the error returned, the steps
\* taken in order, and unmarshalState.err at the end
Unmarshal(bytes, v) ==
    LET Walk(format, r) ==
            [v |-> r.v, format |-> format,
             err |-> IF IsErr(r.err) THEN r.err ELSE r.st,
             trace |-> <<"decode", "validate", "walk">>, st |-> r.st]
        Then(d) ==
            IF IsErr(d.err)
            THEN [v |-> v, format |-> d.format, err |-> d.err, trace |-> <<"decode">>,
                  st |-> NoErr]
            ELSE IF v.T.k # "ptr" \/ v.ptr = <<>>
            THEN [v |-> v, format |-> d.format,
                  err |-> InvalidUnmarshalError(IF v.T.k = "invalid" THEN <<>> ELSE <<v.T>>),
                  trace |-> <<"decode", "validate">>, st |-> NoErr]
            ELSE Walk(d.format, unmarshalValue(d.cfObj, v, FALSE, NoErr))
    IN  Then(cfPropertyListCreateWithData(bytes))

-----------------------------------------------------------------------------
(* the test utilities: standardize and reflect.DeepEqual *)

\* standardize: the new value and whether any conversion took place
RECURSIVE standardize(_)
standardize(o) ==
    LET k == o.T.k
        same == [v |-> o, changed |-> FALSE]
        std(x) == IfaceV(x.T, standardize(x.dyn[1]).v)
    IN  CASE k \in UintKinds ->
                \* u <= math.MaxInt64
                IF ~IsNeg64(o.u) THEN [v |-> IntV(Int64T, o.u), changed |-> TRUE] ELSE same
          [] k \in {"int", "int8", "int16", "int32"} ->
                [v |-> IntV(Int64T, o.i), changed |-> TRUE]
          [] k \in FloatKinds ->
                IF o.f.cls = "fin" /\ o.f.frac = 0
                THEN [v |-> IntV(Int64T, FloatToInt64(o.f)), changed |-> TRUE]
                ELSE same
          [] k = "struct" ->
                IF o.T = timeType
                THEN LET newT == TimeV((o.ticks \div TicksPerSec) * TicksPerSec)
                     IN  [v |-> newT, changed |-> newT # o]
                ELSE same
          [] k = "slice" ->
                IF ~o.nil /\ Len(o.es) = 0 THEN [v |-> NilSlice(o.T), changed |-> TRUE]
                ELSE IF o.T.elem[1].k = "iface"
                THEN [v |-> [o EXCEPT !.es = [j \in 1..Len(o.es) |-> std(o.es[j])]],
                      changed |-> \E j \in 1..Len(o.es) : standardize(o.es[j].dyn[1]).changed]
                ELSE same
          [] k = "map" ->
                IF o.T.elem[1].k = "iface"
                THEN [v |-> [o EXCEPT !.kv = [j \in 1..Len(o.kv) |->
                                [key |-> o.kv[j].key, val |-> std(o.kv[j].val)]]],
                      changed |-> \E j \in 1..Len(o.kv) : standardize(o.kv[j].val.dyn[1]).changed]
                ELSE same
          [] OTHER -> same

\* reflect.DeepEqual of two values held in interface{}
RECURSIVE DeepEqual(_, _)
DeepEqual(a, b) ==
    IF a.T # b.T THEN FALSE
    ELSE CASE a.T.k = "slice" ->
                /\ a.nil = b.nil
                /\ Len(a.es) = Len(b.es)
                /\ \A j \in 1..Len(a.es) : DeepEqual(a.es[j], b.es[j])
          [] a.T.k = "array" -> \A j \in 1..Len(a.es) : DeepEqual(a.es[j], b.es[j])
          [] a.T.k = "map" ->
                /\ a.nil = b.nil
                /\ Len(a.kv) = Len(b.kv)
                /\ \A j \in 1..Len(a.kv) :
                      /\ HasKey(b.kv, a.kv[j].key)
                      /\ DeepEqual(a.kv[j].val, Lookup(b.kv, a.kv[j].key))
          [] a.T.k = "iface" ->
                /\ Len(a.dyn) = Len(b.dyn)
                /\ a.dyn # <<>> => DeepEqual(a.dyn[1], b.dyn[1])
          [] a.T.k = "ptr" ->
                /\ Len(a.ptr) = Len(b.ptr)
                /\ a.ptr # <<>> => DeepEqual(a.ptr[1], b.ptr[1])
          [] a.T.k = "struct" /\ a.T # timeType ->
                \A j \in 1..Len(a.fs) : DeepEqual(a.fs[j], b.fs[j])
          [] OTHER -> a = b

-----------------------------------------------------------------------------
(* the enumeration order of a dictionary read back from bytes *)

Rotate(s, r) == [j \in 1..Len(s) |-> s[((j - 1 + r) % Len(s)) + 1]]
Reverse(s) == [j \in 1..Len(s) |-> s[Len(s) + 1 - j]]

\* the rotations of a sequence and of its reverse: every order of up to three items
Reorderings(s) ==
    IF s = <<>> THEN {s}
    ELSE {Rotate(s, r) : r \in 0..(Len(s) - 1)} \cup {Rotate(Reverse(s), r) : r \in 0..(Len(s) - 1)}

\* the sequences that take their j-th item from the j-th set
RECURSIVE Product(_)
Product(sets) ==
    IF sets = <<>> THEN {<<>>}
    ELSE {<<h>> \o t : h \in Head(sets), t \in Product(Tail(sets))}

\* the objects the codec may read back from the bytes of plist: CFDictionary does
\* not keep the order its pairs were created in
RECURSIVE Enumerations(_)
Enumerations(plist) ==
    CASE plist.t = "CFArray" ->
            {CFArr(es) : es \in Product([j \in 1..Len(plist.es) |-> Enumerations(plist.es[j])])}
      [] plist.t = "CFDictionary" ->
            UNION {{CFDict([j \in 1..Len(kv) |-> [key |-> kv[j].key, val |-> vals[j]]]) :
                        vals \in Product([j \in 1..Len(kv) |-> Enumerations(kv[j].val)])} :
                   kv \in Reorderings(plist.kv)}
      [] OTHER -> {plist}

\* the byte sequences that encode the same property list as bytes
SameBytes(bytes) ==
    IF ~bytes.valid THEN {bytes}
    ELSE {[bytes EXCEPT !.plist = <<p>>] : p \in Enumerations(bytes.plist[1])}

-----------------------------------------------------------------------------
(* the state machine: a call of Marshal, and a call of Unmarshal on the bytes *)
(* it returned or on bytes that are no property list                         *)

NoCall == <<>>

\* the goroutines that call encodeFields side by side
NumCallers == 2
Callers == 1..NumCallers

\* a sync.RWMutex: the goroutines holding it for reading, and the goroutine that
\* called Lock, which holds it once the readers before it have left
Unlocked == [readers |-> {}, writer |-> <<>>, held |-> FALSE]

Init ==
    /\ encodeFieldsCache = <<>>
    /\ obj = InvalidV
    /\ mfmt = 0
    /\ data = NoBytes
    /\ merr = NoErr
    /\ udata = NoBytes
    /\ pre = InvalidV
    /\ target = InvalidV
    /\ uerr = NoErr
    /\ ufmt = 0
    /\ ustate = NoErr
    /\ trace = NoCall
    /\ typeCacheLock = Unlocked
    /\ pc = [c \in Callers |-> "idle"]
    /\ arg = [c \in Callers |-> <<>>]
    /\ local = [c \in Callers |-> [fs |-> <<>>, ok |-> FALSE]]
    /\ computed = <<>>

\* Marshal(v, format); the observations of the Unmarshal call start afresh.  What
\* Marshal does depends on the descriptor cache alone, never on an Unmarshal call
\* before it, so it is taken from the states no Unmarshal call has been added to.
DoMarshal(v, format) ==
    /\ trace = NoCall
    /\ LET MarshalReturns(r) ==
               /\ encodeFieldsCache' = r.cache
               /\ obj' = v
               /\ mfmt' = format
               /\ data' = r.bytes
               /\ merr' = r.err
               /\ udata' = NoBytes
               /\ pre' = InvalidV
               /\ target' = InvalidV
               /\ uerr' = NoErr
               /\ ufmt' = 0
               /\ ustate' = NoErr
               /\ trace' = NoCall
               /\ UNCHANGED goVars
       IN  MarshalReturns(Marshal(v, format, encodeFieldsCache))

\* Unmarshal(bytes, v)
DoUnmarshal(bytes, v) ==
    LET UnmarshalReturns(r) ==
            /\ udata' = bytes
            /\ pre' = v
            /\ target' = r.v
            /\ uerr' = r.err
            /\ ufmt' = r.format
            /\ ustate' = r.st
            /\ trace' = r.trace
            /\ UNCHANGED <<encodeFieldsCache, obj, mfmt, data, merr>>
            /\ UNCHANGED goVars
    IN  UnmarshalReturns(Unmarshal(bytes, v))

\* the last Unmarshal call was handed the bytes of the last Marshal call
RoundTrip == trace # NoCall /\ data.valid /\ udata \in SameBytes(data)
\* the object the last Unmarshal call read from its bytes
Decoded == udata.plist[1]
\* the last Unmarshal call walked the object into its target
Walked == trace = <<"decode", "validate", "walk">>

-----------------------------------------------------------------------------
(* numbers: an int64 is marshalled and decoded into every integer type *)

\* how far around each boundary the numbers go
NumDelta == 1

IntTypes == {IntT, Int8T, Int16T, Int32T, Int64T}
UintTypes == {UintT, Uint8T, Uint16T, Uint32T, Uint64T}

Boundaries ==
    {Zero64, Small64(5), Neg64(Small64(5)), Pow2(63)}
        \cup {Pow2(w - 1) : w \in {8, 16, 32}}
        \cup {Neg64(Pow2(w - 1)) : w \in {8, 16, 32}}
        \cup {Pow2(w) : w \in {8, 16, 32}}

NumInputs ==
    {Add64(b, Small64(d)) : b \in Boundaries, d \in 0..NumDelta}
        \cup {Sub64(b, Small64(d)) : b \in Boundaries, d \in 0..NumDelta}

\* a pointer to an integer variable that holds 0 or 7
NumTargets ==
    {PtrV(PtrT(t), IntV(t, Small64(p))) : t \in IntTypes, p \in {0, 7}}
        \cup {PtrV(PtrT(t), UintV(t, Small64(p))) : t \in UintTypes, p \in {0, 7}}

MarshalNum ==
    \E n \in NumInputs, format \in Formats : DoMarshal(IntV(Int64T, n), format)

UnmarshalNum ==
    \E bytes \in SameBytes(data) \cup {GarbageBytes}, v \in NumTargets : DoUnmarshal(bytes, v)

NextNum == MarshalNum \/ UnmarshalNum

SpecNum == Init /\ [][NextNum]_vars

-----------------------------------------------------------------------------
(* properties of the decoding of numbers *)

\* the number a decimal text denotes, modulo 2^64
RECURSIVE ParseDigits(_, _)
ParseDigits(text, acc) ==
    IF text = <<>> THEN acc
    ELSE ParseDigits(Tail(text),
                     MulAdd10(acc, CHOOSE d \in 0..9 : DigitChars[d + 1] = Head(text)))

ParseDecimal(text) ==
    IF text # <<>> /\ Head(text) = "-" THEN Neg64(ParseDigits(Tail(text), Zero64))
    ELSE ParseDigits(text, Zero64)

IsDecimal(text) ==
    /\ text # <<>>
    /\ \A j \in 1..Len(text) :
          \/ j = 1 /\ text[j] = "-" /\ Len(text) > 1
          \/ \E d \in 0..9 : DigitChars[d + 1] = text[j]

\* -2^(w-1) <= n < 2^(w-1)
FitsSigned(n, w) == w = 64 \/ (SLeq(Neg64(Pow2(w - 1)), n) /\ SLess(n, Pow2(w - 1)))
\* 0 <= n < 2^w
FitsUnsigned(n, w) == ~IsNeg64(n) /\ (w = 64 \/ ULess(n, Pow2(w)))

\* an integer Number was walked into a pointer to a variable of one of the kinds
NumberInto(kinds) ==
    /\ Walked
    /\ Decoded.t = "CFNumber"
    /\ ~IsDouble(Decoded)
    /\ pre.ptr[1].T.k \in kinds

\* the error is an UnmarshalTypeError for type t whose text is 'CFNumber ' and the
\* decimal text of n, recorded in the accumulator and returned at the end
OverflowReported(n, t) ==
    /\ uerr.e = "UnmarshalTypeError"
    /\ ustate = uerr
    /\ uerr.Type = t
    /\ Len(uerr.Value) > 2
    /\ SubSeq(uerr.Value, 1, 2) = <<"CFNumber", " ">>
    /\ IsDecimal(SubSeq(uerr.Value, 3, Len(uerr.Value)))
    /\ ParseDecimal(SubSeq(uerr.Value, 3, Len(uerr.Value))) = n

\* C8: an integer Number n decoded into a signed target of width w is stored as n
\* without error when -2^(w-1) <= n < 2^(w-1); otherwise the target keeps its value
\* and an UnmarshalTypeError with the text 'CFNumber ' and the decimal of n is recorded.
C8_SignedDecode ==
    NumberInto(IntKinds) =>
        LET n == Decoded.i
            t == pre.ptr[1].T
        IN  IF FitsSigned(n, KindBits(t.k))
            THEN target = PtrV(pre.T, IntV(t, n)) /\ uerr = NoErr /\ ustate = NoErr
            ELSE target = pre /\ OverflowReported(n, t)

C8_Witness ==
    /\ NumberInto({"int16"})
    /\ ~FitsSigned(Decoded.i, 16)
    /\ IsNeg64(Decoded.i)
    /\ uerr.e = "UnmarshalTypeError"
    /\ target.ptr[1].i = Small64(7)

\* C9: an integer Number n decoded into an unsigned target of width w is stored as n
\* without error when 0 <= n < 2^w; otherwise the target keeps its value and an
\* UnmarshalTypeError with the decimal text of n is recorded; the target never holds
\* a value other than n.
C9_UnsignedDecode ==
    NumberInto(UintKinds) =>
        LET n == Decoded.i
            t == pre.ptr[1].T
        IN  IF FitsUnsigned(n, KindBits(t.k))
            THEN target = PtrV(pre.T, UintV(t, n)) /\ uerr = NoErr /\ ustate = NoErr
            ELSE target = pre /\ OverflowReported(n, t)

-----------------------------------------------------------------------------
(* arbitrary property lists (Arbitrary.Generate): a tree is marshalled and     *)
(* decoded into a new(interface{}), or handed to Unmarshal with a bad target   *)

\* the most elements of a generated slice and pairs of a generated map
MaxLen == 2

AsAny(v) == IfaceV(AnyT, v)

\* the shallow values: Boolean, Data, Date (whole milliseconds), Number (int64,
\* uint32, float64 with and without a fractional part), String
ArbLeaves ==
    {BoolV(TRUE), BytesV(<<1>>), TimeV(TicksPerSec + TicksPerMs),
     IntV(Int64T, Neg64(Small64(5))), UintV(Uint32T, Small64(7)),
     FloatV(Float64T, FloatOf(FALSE, Small64(2), 0)),
     FloatV(Float64T, FloatOf(FALSE, Small64(2), 5)),
     StringV(<<>>), StringV(<<"a">>)}

ArbKeys == <<<<"a">>, <<"b">>>>

\* the []interface{} values of up to n elements drawn from items
RECURSIVE ArbSlices(_, _)
ArbSlices(items, n) ==
    IF n = 0 THEN {<<>>}
    ELSE ArbSlices(items, n - 1)
            \cup {Append(es, AsAny(x)) : es \in {s \in ArbSlices(items, n - 1) : Len(s) = n - 1},
                                      x \in items}

\* the map[string]interface{} contents of up to n pairs, keys in the order of ArbKeys
RECURSIVE ArbMaps(_, _, _)
ArbMaps(items, n, from) ==
    IF n = 0 \/ from > Len(ArbKeys) THEN {<<>>}
    ELSE ArbMaps(items, n, from + 1)
            \cup {<<[key |-> ArbKeys[from], val |-> AsAny(x)]>> \o kv :
                      x \in items, kv \in ArbMaps(items, n - 1, from + 1)}

Containers(items, n) ==
    {SliceV(SliceT(AnyT), es) : es \in ArbSlices(items, n)}
        \cup {MapV(MapT(StringT, AnyT), kv) : kv \in ArbMaps(items, n, 1)}

\* the generated values: shallow values, containers of them, and containers that
\* hold one container
ArbValues ==
    ArbLeaves \cup Containers(ArbLeaves, MaxLen) \cup Containers(Containers(ArbLeaves, 1), 1)

\* new(interface{})
NewAny == PtrV(PtrT(AnyT), NilIface(AnyT))

\* nil, a value that is no pointer, and a nil pointer
BadTargets == {InvalidV, StringV(<<"a">>), NilPtr(PtrT(AnyT))}

MarshalArb ==
    \E v \in ArbValues, format \in Formats : DoMarshal(v, format)

UnmarshalArb ==
    \E bytes \in SameBytes(data) \cup {GarbageBytes}, v \in {NewAny} \cup BadTargets :
        DoUnmarshal(bytes, v)

NextArb == MarshalArb \/ UnmarshalArb

SpecArb == Init /\ [][NextArb]_vars

\* C1: for every generated tree, Marshal followed by Unmarshal into a new(interface{})
\* returns no error and a result equal to the input once both went through standardize.
C1_RoundTrip ==
    (RoundTrip /\ pre = NewAny) =>
        /\ uerr = NoErr
        /\ DeepEqual(standardize(target.ptr[1].dyn[1]).v, standardize(obj).v)

\* C3: Unmarshal with a nil, non-pointer or nil-pointer target returns an
\* InvalidUnmarshalError, for valid and invalid bytes alike, and the codec was not
\* asked to decode the bytes before the target was validated.
C3_ValidatedFirst ==
    (trace # NoCall /\ (pre.T.k # "ptr" \/ pre.ptr = <<>>)) =>
        /\ uerr.e = "InvalidUnmarshalError"
        /\ trace[1] # "decode"


-----------------------------------------------------------------------------
(* dictionaries decoded into a struct: the T of the unmarshal tests, with a    *)
(* time.Time field and an unexported field added                               *)

\* the most pairs of a dictionary
MaxKeys == 3

\* type T struct { X string; Y int; W time.Time; u int; Z int `plist:"-"` }
TStruct ==
    StructT("T", <<Field(<<"X">>, <<>>, StringT), Field(<<"Y">>, <<>>, IntT),
                   Field(<<"W">>, <<>>, timeType), Unexported(Field(<<"u">>, <<>>, IntT)),
                   Field(<<"Z">>, <<"-">>, IntT)>>)

\* the values a key is given: for X, Y and W one that fits the field and one that
\* does not
KeyValues ==
    <<[key |-> <<"X">>, vals |-> {StringV(<<"a">>),
                                  SliceV(SliceT(AnyT), <<AsAny(IntV(Int64T, Small64(1)))>>)}],
      [key |-> <<"Y">>, vals |-> {IntV(Int64T, Small64(4)), StringV(<<"b">>)}],
      [key |-> <<"W">>, vals |-> {TimeV(TicksPerSec + TicksPerMs), BoolV(TRUE)}],
      [key |-> <<"u">>, vals |-> {IntV(Int64T, Small64(1))}],
      [key |-> <<"Z">>, vals |-> {IntV(Int64T, Small64(2))}],
      [key |-> <<"q">>, vals |-> {IntV(Int64T, Small64(3))}]>>

\* the map[string]interface{} contents of up to n pairs, keys in the order of KeyValues
RECURSIVE DictInputs(_, _)
DictInputs(n, from) ==
    IF n = 0 \/ from > Len(KeyValues) THEN {<<>>}
    ELSE DictInputs(n, from + 1)
            \cup {<<[key |-> KeyValues[from].key, val |-> AsAny(x)]>> \o kv :
                      x \in KeyValues[from].vals, kv \in DictInputs(n - 1, from + 1)}

\* new(T), and a pointer to a T whose fields hold values already
StructTargets ==
    {PtrV(PtrT(TStruct), ZeroV(TStruct)),
     PtrV(PtrT(TStruct), StructV(TStruct, <<StringV(<<"p">>), IntV(IntT, Small64(7)),
                                            TimeV(TicksPerSec), IntV(IntT, Small64(8)),
                                            IntV(IntT, Small64(9))>>))}

MarshalDict ==
    \E kv \in DictInputs(MaxKeys, 1), format \in Formats :
        DoMarshal(MapV(MapT(StringT, AnyT), kv), format)

UnmarshalStruct ==
    \E bytes \in SameBytes(data) \cup {GarbageBytes}, v \in StructTargets : DoUnmarshal(bytes, v)

NextStruct == MarshalDict \/ UnmarshalStruct

SpecStruct == Init /\ [][NextStruct]_vars

\* a dictionary was walked into a pointer to a T
StructCase == Walked /\ Decoded.t = "CFDictionary" /\ pre.T = PtrT(TStruct)

\* the field of T a key is decoded into (0: none), the kind of object that fits it,
\* and the value a fitting object leaves in it
FieldOf(key) ==
    CASE key = <<"X">> -> 1 [] key = <<"Y">> -> 2 [] key = <<"W">> -> 3 [] OTHER -> 0
FitsField(pair) ==
    pair.val.t = <<"CFString", "CFNumber", "CFDate">>[FieldOf(pair.key)]
Stored(pair) ==
    CASE pair.val.t = "CFString" -> StringV(pair.val.s)
      [] pair.val.t = "CFNumber" -> IntV(IntT, pair.val.i)
      [] pair.val.t = "CFDate" -> TimeV(pair.val.ms * TicksPerMs)

\* the pairs whose object does not fit the field their key names
Misfits(kv) == {q \in 1..Len(kv) : FieldOf(kv[q].key) # 0 /\ ~FitsField(kv[q])}
\* the UnmarshalTypeError of a misfit: the kind of object and the field's type
MisfitError(pair) ==
    UnmarshalTypeError(<<pair.val.t>>, TStruct.fields[FieldOf(pair.key)].typ)

\* the fields of a T after the pairs kv were decoded into it best-effort
BestEffort(kv, prior) ==
    [j \in 1..Len(prior.fs) |->
        IF \E q \in 1..Len(kv) : FieldOf(kv[q].key) = j /\ FitsField(kv[q])
        THEN Stored(kv[CHOOSE q \in 1..Len(kv) : FieldOf(kv[q].key) = j])
        ELSE prior.fs[j]]

\* the place of the first key that matches the unexported field (0: none)
UnexportedAt(kv) ==
    IF \E q \in 1..Len(kv) : kv[q].key = <<"u">>
    THEN CHOOSE q \in 1..Len(kv) : kv[q].key = <<"u">>
    ELSE 0

\* C2: when exactly one key's object does not fit its field, that field keeps its
\* prior value, every other key whose object fits is decoded into its field, and
\* Unmarshal returns the UnmarshalTypeError of the misfit: its kind of object and
\* the field's type.
C2_BestEffort ==
    (StructCase /\ UnexportedAt(Decoded.kv) = 0 /\ Cardinality(Misfits(Decoded.kv)) = 1) =>
        /\ target.ptr[1].fs = BestEffort(Decoded.kv, pre.ptr[1])
        /\ uerr = MisfitError(Decoded.kv[CHOOSE q \in Misfits(Decoded.kv) : TRUE])

\* the walk reaches pair p: none of the pairs before it ended the walk
Reaches(kv, p) ==
    \A q \in 1..(p - 1) : ~(FieldOf(kv[q].key) = 3 /\ FitsField(kv[q]))

\* the error recorded while the pairs kv were decoded: that of the first misfit
Recorded(kv) ==
    IF Misfits(kv) = {} THEN NoErr
    ELSE MisfitError(kv[CHOOSE q \in Misfits(kv) : \A h \in Misfits(kv) : q <= h])

\* C4: a key that matches the unexported field ends the walk at that key: Unmarshal
\* returns the UnmarshalFieldError for the key, the type and the field, the target
\* holds what the pairs before the key left in it, and the accumulator holds the
\* mismatch recorded before the key, if any, and never the UnmarshalFieldError.
C4_FieldErrorAborts ==
    LET p == UnexportedAt(Decoded.kv) IN
    (StructCase /\ UnexportedAt(Decoded.kv) # 0 /\ Reaches(Decoded.kv, p)) =>
        /\ uerr = UnmarshalFieldError(<<"u">>, TStruct, TStruct.fields[4])
        /\ target.ptr[1].fs = BestEffort(SubSeq(Decoded.kv, 1, p - 1), pre.ptr[1])
        /\ ustate = Recorded(SubSeq(Decoded.kv, 1, p - 1))
        /\ ustate.e # "UnmarshalFieldError"

\* a mismatch was recorded before the key, a later pair would have fitted
C4_Witness ==
    /\ StructCase
    /\ UnexportedAt(Decoded.kv) = 2
    /\ Len(Decoded.kv) = 3
    /\ FieldOf(Decoded.kv[3].key) = 2 /\ FitsField(Decoded.kv[3])
    /\ ustate.e = "UnmarshalTypeError"
    /\ uerr.e = "UnmarshalFieldError"
    /\ target = pre


-----------------------------------------------------------------------------
(* key matching: a dictionary of one pair is decoded into structs whose fields *)
(* match its key by tag, by name and by case folding, in every order           *)

\* the most fields of a struct
MaxFields == 3

\* type Ab int, for an embedded field
AbT == [IntT EXCEPT !.name = "Ab"]

\* the fields the structs are made of
FieldPool ==
    {Field(<<"A", "b">>, <<>>, IntT),
     Field(<<"A", "B">>, <<>>, IntT),
     Field(<<"X">>, <<"a", "b">>, IntT),
     Field(<<"A", "B">>, <<"-">>, IntT),
     Embedded(Field(<<"A", "b">>, <<>>, AbT)),
     Unexported(Field(<<"a", "b">>, <<>>, IntT)),
     Field(<<"a", "B">>, <<",">> \o OmitEmptyOpt, IntT)}

\* the field lists of up to n fields of the pool with different names, in every order
RECURSIVE FieldLists(_)
FieldLists(n) ==
    IF n = 0 THEN {<<>>}
    ELSE FieldLists(n - 1)
            \cup {Append(fs, f) : fs \in {l \in FieldLists(n - 1) : Len(l) = n - 1},
                                  f \in FieldPool}

MatchTypes ==
    {StructT("M", fs) : fs \in {l \in FieldLists(MaxFields) :
                                   /\ l # <<>>
                                   /\ \A a, b \in 1..Len(l) : a # b => l[a].name # l[b].name}}

MatchKeys == {<<"a", "b">>, <<"A", "b">>, <<"A", "B">>, <<"a", "B">>, <<>>}

MarshalKey ==
    \E key \in MatchKeys, format \in Formats :
        DoMarshal(MapV(MapT(StringT, AnyT),
                       <<[key |-> key, val |-> AsAny(IntV(Int64T, Small64(1)))]>>), format)

\* what Unmarshal does depends on its arguments alone: each struct is decoded from
\* the state the Marshal call left
UnmarshalMatch ==
    /\ trace = NoCall
    /\ \E bytes \in SameBytes(data) \cup {GarbageBytes}, t \in MatchTypes :
          DoUnmarshal(bytes, PtrV(PtrT(t), ZeroV(t)))

NextMatch == MarshalKey \/ UnmarshalMatch

SpecMatch == Init /\ [][NextMatch]_vars

\* a dictionary of one pair was walked into a pointer to one of the structs
MatchCase ==
    Walked /\ Decoded.t = "CFDictionary" /\ Len(Decoded.kv) = 1 /\ pre.T.elem[1].name = "M"

\* the fields chosen for the key: the field the UnmarshalFieldError names, or the
\* fields whose value changed
Chosen ==
    IF uerr.e = "UnmarshalFieldError"
    THEN {j \in 1..Len(pre.T.elem[1].fields) : pre.T.elem[1].fields[j] = uerr.Field}
    ELSE {j \in 1..Len(pre.T.elem[1].fields) : target.ptr[1].fs[j] # pre.ptr[1].fs[j]}

\* the fields that are neither tagged "-" nor embedded
Eligible(fields) == {j \in 1..Len(fields) : fields[j].tag # <<"-">> /\ ~fields[j].anonymous}
\* those whose tag declares a name, and it is the key
TagMatches(fields, key) ==
    {j \in Eligible(fields) : parseTag(fields[j].tag).name # <<>> /\ parseTag(fields[j].tag).name = key}
\* those whose declared name is the key
NameMatches(fields, key) == {j \in Eligible(fields) : fields[j].name = key}
\* those whose declared name is the key but for the case of its letters
FoldMatches(fields, key) == {j \in Eligible(fields) : EqualFold(fields[j].name, key)}
First(S) == CHOOSE j \in S : \A h \in S : j <= h

\* C10: for every order of the fields, a field whose tag name is the key is chosen
\* before any other; else the field whose declared name is the key; else the first
\* field whose declared name matches but for case.  A field tagged "-" or embedded is
\* never chosen.
C10_MatchPrecedence ==
    MatchCase =>
        LET fields == pre.T.elem[1].fields
            key == Decoded.kv[1].key
        IN  /\ Chosen \subseteq Eligible(fields)
            /\ TagMatches(fields, key) # {} => Chosen = {First(TagMatches(fields, key))}
            /\ (TagMatches(fields, key) = {} /\ NameMatches(fields, key) # {}) =>
                    Chosen = NameMatches(fields, key)
            /\ (TagMatches(fields, key) = {} /\ NameMatches(fields, key) = {}
                    /\ FoldMatches(fields, key) # {}) =>
                    Chosen = {First(FoldMatches(fields, key))}

\* the field matching by tag comes last, after one matching by name and one by case
C10_Witness ==
    /\ MatchCase
    /\ Len(pre.T.elem[1].fields) = 3
    /\ TagMatches(pre.T.elem[1].fields, Decoded.kv[1].key) = {3}
    /\ NameMatches(pre.T.elem[1].fields, Decoded.kv[1].key) = {2}
    /\ FoldMatches(pre.T.elem[1].fields, Decoded.kv[1].key) = {1, 2}
    /\ Chosen = {3}
    /\ uerr = NoErr

\* the key is the tag name of no field, the declared name of no field, and the
\* declared name of no field but for case; a field without a tag name declares none
Unmatched(fields, key) ==
    \A j \in 1..Len(fields) :
        /\ ~(parseTag(fields[j].tag).name # <<>> /\ parseTag(fields[j].tag).name = key)
        /\ ~EqualFold(fields[j].name, key)

\* C11: a dictionary key that is no field's tag name, no field's declared name and
\* matches no declared name case-insensitively (the empty key against fields that
\* carry no tag name included) changes no field of the struct and gives no error,
\* returned or recorded.
C11_UnmatchedDropped ==
    (MatchCase /\ Unmatched(pre.T.elem[1].fields, Decoded.kv[1].key)) =>
        /\ target = pre
        /\ uerr = NoErr
        /\ ustate = NoErr


-----------------------------------------------------------------------------
(* omitempty: the Optionals struct of the marshal tests, and a struct with the *)
(* other kinds of empty value, each field empty and filled                     *)

StringsT == SliceT(StringT)
DictT == MapT(StringT, AnyT)

\* type Optionals struct
Optionals ==
    StructT("Optionals",
        <<Field(<<"S", "r">>, <<"s", "r">>, StringT),
          Field(<<"S", "o">>, <<"s", "o">> \o <<",">> \o OmitEmptyOpt, StringT),
          Field(<<"S", "w">>, <<"-">>, StringT),
          Field(<<"I", "r">>, OmitEmptyOpt, IntT),
          Field(<<"I", "o">>, <<"i", "o">> \o <<",">> \o OmitEmptyOpt, IntT),
          Field(<<"S", "l", "r">>, <<"s", "l", "r">> \o <<",", "r", "a", "n", "d", "o", "m">>, StringsT),
          Field(<<"S", "l", "o">>, <<"s", "l", "o">> \o <<",">> \o OmitEmptyOpt, StringsT),
          Field(<<"M", "r">>, <<"m", "r">>, DictT),
          Field(<<"M", "o">>, <<",">> \o OmitEmptyOpt, DictT)>>)

\* type Empties struct, the kinds of empty value Optionals does not have
Empties ==
    StructT("Empties",
        <<Field(<<"B">>, <<"b", ",">> \o OmitEmptyOpt, BoolT),
          Field(<<"P">>, <<"p", ",">> \o OmitEmptyOpt, PtrT(IntT)),
          Field(<<"I">>, <<"i", ",">> \o OmitEmptyOpt, AnyT),
          Field(<<"A">>, <<"a", ",">> \o OmitEmptyOpt, ArrayT(0, IntT)),
          Field(<<"V">>, <<"v", ",">> \o OmitEmptyOpt, ArrayT(1, IntT)),
          Field(<<"F">>, <<"f", ",">> \o OmitEmptyOpt, Float64T),
          Field(<<"Y">>, <<"y", ",">> \o OmitEmptyOpt, Uint8T),
          Field(<<"N">>, <<>>, BoolT)>>)

EmptyOrA == {StringV(<<>>), StringV(<<"a">>)}
ZeroOrFive(t) == {IntV(t, Zero64), IntV(t, Small64(5))}
SomeStrings == SliceV(StringsT, <<StringV(<<"a">>)>>)
SomeDict == MapV(DictT, <<[key |-> <<"a">>, val |-> AsAny(BoolV(TRUE))]>>)

\* the values of the fields of an Optionals, in order
OptionalsFields ==
    <<EmptyOrA, EmptyOrA, {StringV(<<"s">>)}, ZeroOrFive(IntT), ZeroOrFive(IntT),
      {NilSlice(StringsT), SomeStrings}, {NilSlice(StringsT), SomeStrings},
      {MapV(DictT, <<>>), SomeDict}, {MapV(DictT, <<>>), SomeDict}>>

\* the values of the fields of an Empties, in order
EmptiesFields ==
    <<{BoolV(FALSE), BoolV(TRUE)},
      {NilPtr(PtrT(IntT)), PtrV(PtrT(IntT), IntV(IntT, Zero64))},
      {NilIface(AnyT), AsAny(StringV(<<>>))},
      {ArrayV(ArrayT(0, IntT), <<>>)},
      {ArrayV(ArrayT(1, IntT), <<IntV(IntT, Zero64)>>)},
      {FloatV(Float64T, FloatOf(FALSE, Zero64, 0)), FloatV(Float64T, FloatOf(FALSE, Zero64, 5))},
      {UintV(Uint8T, Zero64)},
      {BoolV(FALSE), BoolV(TRUE)}>>

\* the Optionals of TestOmitEmpty
EmptyOptionals ==
    StructV(Optionals, <<StringV(<<>>), StringV(<<>>), StringV(<<"s">>), IntV(IntT, Zero64),
                         IntV(IntT, Zero64), NilSlice(StringsT), NilSlice(StringsT),
                         MapV(DictT, <<>>), MapV(DictT, <<>>)>>)

\* &o for the Optionals o made of these values and for that of TestOmitEmpty with an
\* empty slice that is not nil and with a nil map, and the Empties
OmitInputs ==
    {PtrV(PtrT(Optionals), StructV(Optionals, fs)) : fs \in Product(OptionalsFields)}
        \cup {PtrV(PtrT(Optionals), [EmptyOptionals EXCEPT !.fs[7] = SliceV(StringsT, <<>>)]),
              PtrV(PtrT(Optionals), [EmptyOptionals EXCEPT !.fs[9] = NilMap(DictT)])}
        \cup {StructV(Empties, fs) : fs \in Product(EmptiesFields)}

MarshalOmit ==
    \E v \in OmitInputs : DoMarshal(v, XMLFormat)

\* the bytes are read back once, from the state the Marshal call left
UnmarshalOmit ==
    /\ trace = NoCall
    /\ \E bytes \in SameBytes(data) \cup {GarbageBytes} : DoUnmarshal(bytes, NewAny)

NextOmit == MarshalOmit \/ UnmarshalOmit

SpecOmit == Init /\ [][NextOmit]_vars

\* the struct that was marshalled
Marshalled == IF obj.T.k = "ptr" THEN obj.ptr[1] ELSE obj
OmitCase == obj.T \in {PtrT(Optionals), Empties}

\* the described fields of the two structs: the place of the field, the key of its
\* entry, and whether it is tagged omitempty
Described(t) ==
    IF t = Optionals
    THEN {[i |-> 1, key |-> <<"s", "r">>, omit |-> FALSE], [i |-> 2, key |-> <<"s", "o">>, omit |-> TRUE],
          [i |-> 4, key |-> OmitEmptyOpt, omit |-> FALSE], [i |-> 5, key |-> <<"i", "o">>, omit |-> TRUE],
          [i |-> 6, key |-> <<"s", "l", "r">>, omit |-> FALSE], [i |-> 7, key |-> <<"s", "l", "o">>, omit |-> TRUE],
          [i |-> 8, key |-> <<"m", "r">>, omit |-> FALSE], [i |-> 9, key |-> <<"M", "o">>, omit |-> TRUE]}
    ELSE {[i |-> 1, key |-> <<"b">>, omit |-> TRUE], [i |-> 2, key |-> <<"p">>, omit |-> TRUE],
          [i |-> 3, key |-> <<"i">>, omit |-> TRUE], [i |-> 4, key |-> <<"a">>, omit |-> TRUE],
          [i |-> 5, key |-> <<"v">>, omit |-> TRUE], [i |-> 6, key |-> <<"f">>, omit |-> TRUE],
          [i |-> 7, key |-> <<"y">>, omit |-> TRUE], [i |-> 8, key |-> <<"N">>, omit |-> FALSE]}

\* empty: false, 0, a nil pointer or interface, an array, slice, map or string of
\* length zero
IsEmpty(v) ==
    \/ v.T.k = "bool" /\ ~v.b
    \/ v.T.k \in IntKinds /\ v.i = Zero64
    \/ v.T.k \in UintKinds /\ v.u = Zero64
    \/ v.T.k \in FloatKinds /\ v.f = FloatOf(FALSE, Zero64, 0)
    \/ v.T.k = "ptr" /\ v.ptr = <<>>
    \/ v.T.k = "iface" /\ v.dyn = <<>>
    \/ v.T.k \in {"array", "slice"} /\ v.es = <<>>
    \/ v.T.k = "map" /\ v.kv = <<>>
    \/ v.T.k = "string" /\ v.s = <<>>

\* the property list object of a field's value
RECURSIVE PlistOf(_)
PlistOf(v) ==
    CASE v.T.k = "bool" -> CFBool(v.b)
      [] v.T.k \in IntKinds -> CFInt(v.i)
      [] v.T.k \in UintKinds -> CFInt(v.u)
      [] v.T.k \in FloatKinds -> CFDouble(v.f)
      [] v.T.k = "string" -> CFStr(v.s)
      [] v.T.k = "ptr" -> PlistOf(v.ptr[1])
      [] v.T.k = "iface" -> PlistOf(v.dyn[1])
      [] v.T.k \in {"array", "slice"} -> CFArr([j \in 1..Len(v.es) |-> PlistOf(v.es[j])])
      [] v.T.k = "map" ->
            CFDict([j \in 1..Len(v.kv) |-> [key |-> v.kv[j].key, val |-> PlistOf(v.kv[j].val)]])

\* the entries of the dictionary Marshal produced
Entries == {data.plist[1].kv[j] : j \in 1..Len(data.plist[1].kv)}

\* C7: marshalling a struct gives a dictionary with one entry per described field but
\* those tagged omitempty whose value is empty; a field without omitempty has its
\* entry also when empty, and the tag name 'omitempty' only renames the field.  The
\* Optionals with every field empty gives exactly sr: "", omitempty: 0, slr: [], mr: {}.
C7_OmitEmpty ==
    OmitCase =>
        /\ merr = NoErr
        /\ data.plist[1].t = "CFDictionary"
        /\ Len(data.plist[1].kv) = Cardinality(Entries)
        /\ Entries = {[key |-> d.key, val |-> PlistOf(Marshalled.fs[d.i])] :
                          d \in {e \in Described(Marshalled.T) :
                                    ~(e.omit /\ IsEmpty(Marshalled.fs[e.i]))}}
        /\ Marshalled = EmptyOptionals =>
              Entries = {[key |-> <<"s", "r">>, val |-> CFStr(<<>>)],
                         [key |-> OmitEmptyOpt, val |-> CFInt(Zero64)],
                         [key |-> <<"s", "l", "r">>, val |-> CFArr(<<>>)],
                         [key |-> <<"m", "r">>, val |-> CFDict(<<>>)]}

\* the Optionals of TestOmitEmpty was marshalled
C7_Witness ==
    /\ OmitCase
    /\ Marshalled = EmptyOptionals
    /\ data.valid
    /\ Len(data.plist[1].kv) = 4


-----------------------------------------------------------------------------
(* Marshalers: the Ref and Val of the marshal tests, reached through pointers,  *)
(* slices, arrays, maps and interfaces, and Marshalers that return other things *)

\* the most containers around a value
MaxWrap == 2

\* a named integer type with a MarshalPlist method
HookT(name, recv, ret, err) ==
    [IntT EXCEPT !.name = name, !.mh = [recv |-> recv, ret |-> ret, err |-> err]]

\* type Ref int, func (*Ref) MarshalPlist, and type Val int, func (Val) MarshalPlist
RefT == HookT("Ref", "ptr", <<StringV(<<"r", "e", "f">>)>>, NoErr)
ValT == HookT("Val", "val", <<StringV(<<"v", "a", "l">>)>>, NoErr)

\* the struct of TestRefValMarshal
RefValT ==
    StructT("", <<Field(<<"R", "0">>, <<>>, RefT), Field(<<"R", "1">>, <<>>, PtrT(RefT)),
                  Field(<<"V", "0">>, <<>>, ValT), Field(<<"V", "1">>, <<>>, PtrT(ValT))>>)

RefValBases ==
    {IntV(RefT, Small64(12)), PtrV(PtrT(RefT), IntV(RefT, Zero64)),
     IntV(ValT, Small64(13)), PtrV(PtrT(ValT), IntV(ValT, Zero64)),
     StructV(RefValT, <<IntV(RefT, Small64(12)), PtrV(PtrT(RefT), IntV(RefT, Zero64)),
                        IntV(ValT, Small64(13)), PtrV(PtrT(ValT), IntV(ValT, Zero64))>>)}

WrapKinds == {"ptr", "slice", "array", "map", "iface"}

\* x behind a pointer, in a slice, in an array, in a map, or held in an interface{}
Wrap(kind, x) ==
    CASE kind = "ptr" -> PtrV(PtrT(x.T), x)
      [] kind = "slice" -> SliceV(SliceT(x.T), <<x>>)
      [] kind = "array" -> ArrayV(ArrayT(1, x.T), <<x>>)
      [] kind = "map" -> MapV(MapT(StringT, x.T), <<[key |-> <<"k">>, val |-> x]>>)
      [] kind = "iface" -> AsAny(x)

\* the values with up to n containers around a base
RECURSIVE Wrapped(_)
Wrapped(n) ==
    IF n = 0 THEN RefValBases
    ELSE Wrapped(n - 1) \cup {Wrap(kind, x) : kind \in WrapKinds, x \in Wrapped(n - 1)}

\* Marshal takes an interface{}: what it is given is never itself an interface
WrapInputs == {x \in Wrapped(MaxWrap) : x.T.k # "iface"}

\* a struct a MarshalPlist returns
PairT == StructT("Pair", <<Field(<<"A">>, <<>>, IntT)>>)

\* what the MarshalPlist methods of the other Marshalers return
Returned ==
    {<<StructV(PairT, <<IntV(IntT, Small64(1))>>)>>,
     <<PtrV(PtrT(IntT), IntV(IntT, Small64(5)))>>,
     <<IntV(ValT, Small64(13))>>,
     <<SliceV(SliceT(AnyT), <<AsAny(IntV(ValT, Small64(13)))>>)>>,
     <<MapV(MapT(StringT, AnyT), <<[key |-> <<"k">>, val |-> AsAny(BoolV(TRUE))]>>)>>,
     <<IntV(Int64T, Small64(3))>>,
     <<>>}

HookFailed == ErrorsNew("MarshalPlist failed")

\* the Marshalers: each return with either receiver, and a method that fails
HookTypes ==
    {HookT("H", recv, ret, NoErr) : recv \in {"val", "ptr"}, ret \in Returned}
        \cup {HookT("H", recv, <<>>, HookFailed) : recv \in {"val", "ptr"}}

\* a value of each Marshaler with a value receiver, a pointer to one of each
HookInputs ==
    {IntV(t, Small64(1)) : t \in {h \in HookTypes : h.mh.recv = "val"}}
        \cup {PtrV(PtrT(t), IntV(t, Small64(1))) : t \in HookTypes}

MarshalHook ==
    \E v \in WrapInputs \cup HookInputs : DoMarshal(v, XMLFormat)

\* the bytes are read back once, from the state the Marshal call left
UnmarshalHook ==
    /\ trace = NoCall
    /\ \E bytes \in SameBytes(data) \cup {GarbageBytes} : DoUnmarshal(bytes, NewAny)

NextHook == MarshalHook \/ UnmarshalHook

SpecHook == Init /\ [][NextHook]_vars

\* the property list of a value made of Ref and Val: a Val and a pointer to a Ref or
\* Val are what the hook returns; a Ref is what the hook returns when it is
\* addressable (or always), else the number it is
RECURSIVE DispatchPlist(_, _, _)
DispatchPlist(v, addr, always) ==
    CASE v.T = ValT -> CFStr(ValT.mh.ret[1].s)
      [] v.T = RefT -> IF always \/ addr THEN CFStr(RefT.mh.ret[1].s) ELSE CFInt(v.i)
      [] v.T.k = "ptr" ->
            IF v.T.elem[1] \in {RefT, ValT} THEN CFStr(v.T.elem[1].mh.ret[1].s)
            ELSE DispatchPlist(v.ptr[1], TRUE, always)
      [] v.T.k = "slice" -> CFArr([j \in 1..Len(v.es) |-> DispatchPlist(v.es[j], TRUE, always)])
      [] v.T.k = "array" -> CFArr([j \in 1..Len(v.es) |-> DispatchPlist(v.es[j], addr, always)])
      [] v.T.k = "map" ->
            CFDict([j \in 1..Len(v.kv) |->
                        [key |-> v.kv[j].key, val |-> DispatchPlist(v.kv[j].val, FALSE, always)]])
      [] v.T.k = "iface" -> DispatchPlist(v.dyn[1], FALSE, always)
      [] v.T.k = "struct" ->
            CFDict([j \in 1..Len(v.fs) |->
                        [key |-> v.T.fields[j].name, val |-> DispatchPlist(v.fs[j], addr, always)]])

\* a value made of Ref and Val was marshalled
WrapCase == obj \in WrapInputs

\* C5 as stated: every Ref and every Val, addressable or not, is encoded as what its
\* hook returns and never as the number it is.
C5_HookAlways ==
    WrapCase => merr = NoErr /\ data.plist[1] = DispatchPlist(obj, FALSE, TRUE)

\* C5: every Val and every pointer to a Ref or Val is encoded as what its hook
\* returns; a Ref that is no pointer is encoded as what its hook returns when it is
\* addressable (reached through a pointer or as the element of a slice, with no map or
\* interface in between) and as the number it is when it is not.
C5_HookWhenAddressable ==
    WrapCase => merr = NoErr /\ data.plist[1] = DispatchPlist(obj, FALSE, FALSE)

\* the struct of TestRefValMarshal passed by value: R0 is the number, the others hooked
C5_Witness ==
    /\ obj.T = RefValT
    /\ data.valid
    /\ data.plist[1].kv[1].val = CFInt(Small64(12))
    /\ data.plist[1].kv[2].val = CFStr(<<"r", "e", "f">>)
    /\ data.plist[1].kv[3].val = CFStr(<<"v", "a", "l">>)

\* a Marshaler that returns something else was marshalled
HookCase == obj \in HookInputs
\* its MarshalPlist method
Hook == HookOf(obj.T)

\* C6 as stated: what the hook returns is marshalled by the marshal engine like any
\* other value, and an error of the hook is returned unchanged.
C6_HookResultMarshalled ==
    HookCase =>
        IF IsErr(Hook.err) THEN merr = Hook.err
        ELSE LET Same(r) == merr = r.err /\ data = r.bytes
             IN  Same(Marshal(ValueOfHook(Hook), mfmt, <<>>))

\* C6: an error of the hook is returned unchanged; else what the hook returns is
\* converted without another dispatch: nothing gives an UnsupportedValueError, a
\* struct or a pointer an UnsupportedTypeError for its type, and any other value the
\* property list of its kind, a Marshaler in it encoded as the number it is.
C6_HookResultConverted ==
    HookCase =>
        IF IsErr(Hook.err) THEN merr = Hook.err /\ ~data.valid
        ELSE IF Hook.ret = <<>>
        THEN merr = UnsupportedValueError("invalid value") /\ ~data.valid
        ELSE IF Hook.ret[1].T.k \in {"struct", "ptr"}
        THEN merr = UnsupportedTypeError(Hook.ret[1].T) /\ ~data.valid
        ELSE merr = NoErr /\ data.plist[1] = PlistOf(Hook.ret[1])

\* a hook returned a struct, and Marshal an UnsupportedTypeError for it
C6_Witness ==
    /\ HookCase
    /\ Hook.ret # <<>>
    /\ Hook.ret[1].T = PairT
    /\ merr = UnsupportedTypeError(PairT)

-----------------------------------------------------------------------------
(* tag names: a struct with one tagged field, for tags in and out of the rule *)
(* for key names                                                              *)

\* the key names the tags give: letters, a digit, the punctuation of the rule, a
\* space, a quote and a backslash
TagNames ==
    {<<"a", "b">>, <<"a", "1">>, <<"a", "$", "b">>, <<"a", "-", "b">>, <<"%", "/">>,
     <<"a", "_">>, <<"a", " ", "b">>, <<"\"">>, <<"a", "\\">>}

\* the tags: a name alone, and no name before the options
Tags == TagNames \cup {<<",">> \o OmitEmptyOpt}

\* type G struct { F int `plist:"<tag>"` }
TagT(tag) == StructT("G", <<Field(<<"F">>, tag, IntT)>>)

MarshalTag ==
    \E tag \in Tags : DoMarshal(StructV(TagT(tag), <<IntV(IntT, Small64(5))>>), XMLFormat)

UnmarshalTag ==
    /\ trace = NoCall
    /\ \E bytes \in SameBytes(data) : DoUnmarshal(bytes, NewAny)

NextTag == MarshalTag \/ UnmarshalTag

SpecTag == Init /\ [][NextTag]_vars

\* Marshal returned the bytes of one of the structs
TagCase == obj.T.name = "G" /\ merr = NoErr /\ data.valid

\* the rule for key names: not empty, and letters, digits and the punctuation
\* characters of the rule alone
NameAllowed(name) ==
    /\ name # <<>>
    /\ \A j \in 1..Len(name) : IsLetter(name[j]) \/ IsDigit(name[j]) \/ name[j] \in PunctChars

\* C12: the name a tag supplies is the key of the field if and only if it is not
\* empty and each character of it is a letter, a digit or an allowed punctuation
\* character; any other name is discarded for the declared field name.
C12_TagNameValidated ==
    TagCase =>
        LET f == obj.T.fields[1]
            name == parseTag(f.tag).name
        IN  Keys(data.plist[1].kv) = <<IF NameAllowed(name) THEN name ELSE f.name>>

-----------------------------------------------------------------------------
(* unsigned integers: a value of every unsigned type is marshalled *)

UintptrT == Basic("uintptr")

\* the unsigned types of 64 bits
WideUintTypes == {Uint64T, UintT, UintptrT}

\* values around 0, 2^32 and 2^63, and the largest one
WideUints ==
    {Zero64, Small64(5), Not64(Zero64)}
        \cup {Add64(b, Small64(d)) : b \in {Pow2(32), Pow2(63)}, d \in 0..NumDelta}
        \cup {Sub64(b, Small64(d)) : b \in {Pow2(32), Pow2(63)}, d \in 0..NumDelta}

UintInputs ==
    {UintV(t, u) : t \in WideUintTypes, u \in WideUints}
        \cup {UintV(t, u) : t \in {Uint8T, Uint16T, Uint32T}, u \in {Zero64, Small64(5)}}
        \cup {UintV(t, Sub64(Pow2(KindBits(t.k)), Small64(1))) : t \in {Uint8T, Uint16T, Uint32T}}

MarshalUint ==
    \E v \in UintInputs, format \in Formats : DoMarshal(v, format)

UnmarshalUint ==
    /\ trace = NoCall
    /\ \E bytes \in SameBytes(data) \cup {GarbageBytes},
          v \in {NewAny, PtrV(PtrT(Uint64T), UintV(Uint64T, Small64(7)))} :
          DoUnmarshal(bytes, v)

NextUint == MarshalUint \/ UnmarshalUint

SpecUint == Init /\ [][NextUint]_vars

\* Marshal was handed an unsigned integer of 64 bits
WideCase == obj.T \in WideUintTypes

\* C13: an unsigned integer u of 64 bits is marshalled as the Number u if u is at
\* most 2^63-1, and with an UnsupportedValueError if it is larger.
C13_Uint64Marshal ==
    WideCase =>
        IF ULess(obj.u, Pow2(63))
        THEN merr = NoErr /\ data.valid /\ data.plist[1] = CFInt(obj.u)
        ELSE merr.e = "UnsupportedValueError" /\ ~data.valid

-----------------------------------------------------------------------------
(* values Marshal has no encoding for: nothing, nil pointers, nil interfaces,  *)
(* and floats that are no numbers, at the top and inside containers            *)

\* type N struct { A int; P interface{} } and type NP struct { A int; P *int }
NAnyT == StructT("N", <<Field(<<"A">>, <<>>, IntT), Field(<<"P">>, <<>>, AnyT)>>)
NPtrT == StructT("NP", <<Field(<<"A">>, <<>>, IntT), Field(<<"P">>, <<>>, PtrT(IntT))>>)

\* the unsupportedValues of the marshal tests, and a float32
NotNumbers ==
    {FloatV(Float64T, NaN), FloatV(Float64T, Inf(TRUE)), FloatV(Float64T, Inf(FALSE)),
     FloatV(Float32T, NaN)}

\* nil pointers: to an int, and to the Ref and Val of the marshal tests
NilPointers == {NilPtr(PtrT(IntT)), NilPtr(PtrT(RefT)), NilPtr(PtrT(ValT))}

\* a nil interface{}; a struct whose pointer field is nil
NilBases ==
    NotNumbers \cup NilPointers
        \cup {NilIface(AnyT), StructV(NPtrT, <<IntV(IntT, Small64(1)), NilPtr(PtrT(IntT))>>)}

\* values that have an encoding
GoodBases == {IntV(IntT, Small64(5)), FloatV(Float64T, FloatOf(FALSE, Small64(2), 5))}

NestKinds == WrapKinds \cup {"struct"}

\* x in one more container: one of Wrap, or the field P of an N after the field A
Nest(kind, x) ==
    IF kind = "struct"
    THEN StructV(NAnyT, <<IntV(IntT, Small64(1)), IF x.T.k = "iface" THEN x ELSE AsAny(x)>>)
    ELSE Wrap(kind, x)

\* the values with up to n containers around a base; an interface holds no interface
RECURSIVE Nested(_, _)
Nested(bases, n) ==
    IF n = 0 THEN bases
    ELSE Nested(bases, n - 1)
            \cup UNION {{Nest(kind, x) : x \in {y \in Nested(bases, n - 1) :
                                                  kind = "iface" => y.T.k # "iface"}} :
                         kind \in NestKinds}

\* Marshal(nil), and the values above; what Marshal is given is never an interface
NilInputs == {InvalidV} \cup {x \in Nested(NilBases, MaxWrap) : x.T.k # "iface"}
GoodInputs == {x \in Nested(GoodBases, MaxWrap) : x.T.k # "iface"}

MarshalNil ==
    \E v \in NilInputs \cup GoodInputs : DoMarshal(v, XMLFormat)

UnmarshalNil ==
    /\ trace = NoCall
    /\ \E bytes \in SameBytes(data) \cup {GarbageBytes} : DoUnmarshal(bytes, NewAny)

NextNil == MarshalNil \/ UnmarshalNil

SpecNil == Init /\ [][NextNil]_vars

\* Marshal was handed a value that holds nothing, a nil pointer, a nil interface or a
\* float that is no number
NilCase == obj \in NilInputs /\ mfmt # 0

\* C14: Marshal returns an UnsupportedValueError and no bytes whenever the value holds,
\* at the top or nested in a slice, array, map or struct field, an invalid value, a nil
\* pointer, a nil interface, or a float that is NaN or infinite; a nil pointer is
\* rejected before its MarshalPlist is looked for.
C14_NilAndNaNRejected ==
    NilCase => merr.e = "UnsupportedValueError" /\ ~data.valid

-----------------------------------------------------------------------------
(* the kinds: a value of every kind, those without an encoding included, at the *)
(* top and inside containers                                                   *)

ChanT == [TypeOf("chan", "") EXCEPT !.elem = <<IntT>>]
FuncT == TypeOf("func", "")
Complex128T == Basic("complex128")

\* a channel, a function, a complex number, and a map whose keys are no strings
OpaqueBases ==
    {OpaqueV(ChanT), OpaqueV(FuncT), OpaqueV(Complex128T),
     MapV(MapT(IntT, IntT), <<>>), NilMap(MapT(BoolT, StringT))}

\* a value of each kind that has an encoding
KindBases ==
    {BoolV(TRUE), IntV(Int8T, Small64(5)), UintV(Uint16T, Small64(5)),
     FloatV(Float32T, FloatOf(FALSE, Small64(2), 5)), StringV(<<"a">>), BytesV(<<1, 2>>),
     TimeV(TicksPerSec), NilSlice(SliceT(IntT)), NilMap(MapT(StringT, IntT)),
     ArrayV(ArrayT(2, Uint8T), <<UintV(Uint8T, Small64(1)), UintV(Uint8T, Small64(2))>>)}

\* type U int with a func (U) MarshalPlist that returns a [2]byte, and one with a
\* MarshalPlist that returns a []byte
ByteHooks ==
    {IntV(HookT("U", "val", <<ArrayV(ArrayT(2, Uint8T),
                                     <<UintV(Uint8T, Small64(1)), UintV(Uint8T, Small64(2))>>)>>,
                NoErr), Small64(1)),
     IntV(HookT("U", "val", <<BytesV(<<1, 2>>)>>, NoErr), Small64(1))}

KindInputs ==
    {x \in Nested(OpaqueBases \cup KindBases, MaxWrap) : x.T.k # "iface"} \cup ByteHooks

MarshalKind ==
    \E v \in KindInputs : DoMarshal(v, XMLFormat)

UnmarshalKind ==
    /\ trace = NoCall
    /\ \E bytes \in SameBytes(data) \cup {GarbageBytes} : DoUnmarshal(bytes, NewAny)

NextKind == MarshalKind \/ UnmarshalKind

SpecKind == Init /\ [][NextKind]_vars

\* the type without an encoding that a value holds, if it holds one
RECURSIVE Offender(_)
Offender(v) ==
    CASE v.T.k \in {"chan", "func", "complex128"} -> <<v.T>>
      [] v.T.k = "map" ->
            IF v.T.key[1].k # "string" THEN <<v.T>>
            ELSE IF Len(v.kv) = 0 THEN <<>> ELSE Offender(v.kv[1].val)
      [] v.T.k = "ptr" -> Offender(v.ptr[1])
      [] v.T.k = "iface" -> Offender(v.dyn[1])
      [] v.T.k \in {"slice", "array"} -> IF Len(v.es) = 0 THEN <<>> ELSE Offender(v.es[1])
      [] v.T = NAnyT -> Offender(v.fs[2])
      [] OTHER -> <<>>

\* Marshal was handed one of the values
KindCase == obj \in KindInputs /\ mfmt # 0

\* C15: Marshal ends with bytes or with an error for a value of every kind and never
\* with a panic; a channel, a function, a complex number and a map whose keys are no
\* strings give an UnsupportedTypeError that carries the type of that value.
C15_DispatchTotal ==
    KindCase =>
        /\ merr.e # "panic"
        /\ merr = NoErr <=> data.valid
        /\ Offender(obj) # <<>> => merr = UnsupportedTypeError(Offender(obj)[1])

-----------------------------------------------------------------------------
(* arrays: an array of numbers is decoded into arrays and slices of every *)
(* length, empty and filled                                               *)

\* the j-th element of the marshalled arrays, and what the targets hold before
SeqItem(j) == IntV(Int64T, Small64(10 + j))
PriorItem(j) == IntV(IntT, Small64(70 + j))

\* []interface{} of n numbers, and the same with a string in the second place
SeqInputs ==
    {SliceV(SliceT(AnyT), [j \in 1..n |-> AsAny(SeqItem(j))]) : n \in 0..(MaxLen + 1)}
        \cup {SliceV(SliceT(AnyT),
                     [j \in 1..n |-> AsAny(IF j = 2 THEN StringV(<<"a">>) ELSE SeqItem(j))]) :
                  n \in 2..(MaxLen + 1)}

\* new([m]int) and new([]int), filled before the call; a nil and an empty slice
SeqTargets ==
    {PtrV(PtrT(ArrayT(m, IntT)), ArrayV(ArrayT(m, IntT), [j \in 1..m |-> PriorItem(j)])) :
         m \in {0, 1, MaxLen + 1, MaxLen + 3}}
        \cup {PtrV(PtrT(SliceT(IntT)), SliceV(SliceT(IntT), [j \in 1..m |-> PriorItem(j)])) :
                  m \in {0, 1, MaxLen + 2}}
        \cup {PtrV(PtrT(SliceT(IntT)), NilSlice(SliceT(IntT)))}

MarshalSeq ==
    \E v \in SeqInputs, format \in Formats : DoMarshal(v, format)

UnmarshalSeq ==
    /\ trace = NoCall
    /\ \E bytes \in SameBytes(data) \cup {GarbageBytes}, v \in SeqTargets : DoUnmarshal(bytes, v)

NextSeq == MarshalSeq \/ UnmarshalSeq

SpecSeq == Init /\ [][NextSeq]_vars

\* an array was walked into a pointer to an array or a slice of ints
SeqCase ==
    /\ Walked
    /\ Decoded.t = "CFArray"
    /\ pre.T.elem[1].k \in {"array", "slice"}
    /\ pre.T.elem[1].elem[1] = IntT

\* the int an element of the array is decoded into, or what the place held before
\* for an element that is no number
ItemInto(cf, before) == IF cf.t = "CFNumber" THEN IntV(IntT, cf.i) ELSE before

\* C16: an Array of n elements decoded into an array of length m sets the places
\* 1..min(n,m) from the elements in order, drops the elements beyond m and leaves the
\* places beyond n as they were; decoded into a slice it leaves the slice with exactly
\* n elements, for every n from 0 and whatever the slice held before.
C16_ArrayDecode ==
    SeqCase =>
        LET es == Decoded.es
            was == pre.ptr[1].es
            now == target.ptr[1].es
        IN  IF pre.T.elem[1].k = "array"
            THEN /\ Len(now) = Len(was)
                 /\ \A j \in 1..Len(now) :
                        now[j] = IF j <= Len(es) THEN ItemInto(es[j], was[j]) ELSE was[j]
            ELSE /\ Len(now) = Len(es)
                 /\ \A j \in 1..Len(now) : now[j] = ItemInto(es[j], ZeroV(IntT))

-----------------------------------------------------------------------------
(* leaves: a bool, a string, bytes and a time are decoded into variables of *)
(* each of the four types                                                   *)

\* type S string
NamedStringT == [StringT EXCEPT !.name = "S"]

LeafInputs ==
    {BoolV(TRUE), BoolV(FALSE), StringV(<<>>), StringV(<<"a">>), BytesV(<<>>), BytesV(<<1, 2>>),
     TimeV(0), TimeV(TicksPerSec + TicksPerMs)}

\* pointers to variables that hold a zero value or another value
LeafTargets ==
    {PtrV(PtrT(x.T), x) :
        x \in {BoolV(FALSE), BoolV(TRUE), StringV(<<>>), StringV(<<"b">>),
               NilSlice(byteSliceType), BytesV(<<7>>), TimeV(0), TimeV(5 * TicksPerSec),
               [StringV(<<"b">>) EXCEPT !.T = NamedStringT]}}

MarshalLeaf ==
    \E v \in LeafInputs, format \in Formats : DoMarshal(v, format)

UnmarshalLeaf ==
    /\ trace = NoCall
    /\ \E bytes \in SameBytes(data) \cup {GarbageBytes}, v \in LeafTargets : DoUnmarshal(bytes, v)

NextLeaf == MarshalLeaf \/ UnmarshalLeaf

SpecLeaf == Init /\ [][NextLeaf]_vars

\* the Go value of a leaf
LeafValue(cf) ==
    CASE cf.t = "CFBoolean" -> BoolV(cf.b)
      [] cf.t = "CFString" -> StringV(cf.s)
      [] cf.t = "CFData" -> BytesV(cf.bs)
      [] cf.t = "CFDate" -> TimeV(cf.ms * TicksPerMs)

\* a leaf was walked into a pointer to a variable of its kind
LeafCase ==
    /\ Walked
    /\ Decoded.t \in {"CFBoolean", "CFString", "CFData", "CFDate"}
    /\ Underlying(pre.T.elem[1]) = Underlying(LeafValue(Decoded).T)

\* C17: a Bool, String, Bytes or Timestamp decoded into a target of the matching kind
\* (bool, string, []byte, time.Time) is stored in the target, and the call returns no
\* error and records none.
C17_LeafDecode ==
    LeafCase =>
        /\ target.ptr[1] = [LeafValue(Decoded) EXCEPT !.T = pre.T.elem[1]]
        /\ uerr = NoErr
        /\ ustate = NoErr

-----------------------------------------------------------------------------
(* interface targets: the generated values are decoded into an interface{} and *)
(* into an interface none of them implements, both nil                         *)

\* var e error; &e
NewClosed == PtrV(PtrT(ClosedIfaceT), NilIface(ClosedIfaceT))

MarshalAny ==
    \E v \in ArbValues : DoMarshal(v, XMLFormat)

UnmarshalAny ==
    /\ trace = NoCall
    /\ \E bytes \in SameBytes(data) \cup {GarbageBytes}, v \in {NewAny, NewClosed} :
          DoUnmarshal(bytes, v)

NextAny == MarshalAny \/ UnmarshalAny

SpecAny == Init /\ [][NextAny]_vars

\* the type a nil interface is given for each variant
DefaultType(cf) ==
    CASE cf.t = "CFBoolean" -> BoolT
      [] cf.t = "CFNumber" -> Int64T
      [] cf.t = "CFString" -> StringT
      [] cf.t = "CFData" -> SliceT(Uint8T)
      [] cf.t = "CFDate" -> timeType
      [] cf.t = "CFArray" -> SliceT(AnyT)
      [] cf.t = "CFDictionary" -> MapT(StringT, AnyT)

\* the value a nil interface{} holds after an object was decoded into it, each
\* element and each value of a pair decoded into a nil interface{} of its own
RECURSIVE Default(_)
RECURSIVE DefaultPairs(_, _, _)
DefaultPairs(kv, j, acc) ==
    IF j > Len(kv) THEN acc
    ELSE DefaultPairs(kv, j + 1, SetKey(acc, kv[j].key, AsAny(Default(kv[j].val))))
Default(cf) ==
    CASE cf.t = "CFBoolean" -> BoolV(cf.b)
      [] cf.t = "CFNumber" -> IntV(Int64T, IF IsDouble(cf) THEN FloatToInt64(cf.f) ELSE cf.i)
      [] cf.t = "CFString" -> StringV(cf.s)
      [] cf.t = "CFData" -> BytesV(cf.bs)
      [] cf.t = "CFDate" -> TimeV(cf.ms * TicksPerMs)
      [] cf.t = "CFArray" ->
            IF Len(cf.es) = 0 THEN NilSlice(SliceT(AnyT))
            ELSE SliceV(SliceT(AnyT), [j \in 1..Len(cf.es) |-> AsAny(Default(cf.es[j]))])
      [] cf.t = "CFDictionary" -> MapV(MapT(StringT, AnyT), DefaultPairs(cf.kv, 1, <<>>))

\* a Timestamp inside an Array or Dictionary: the walk of the container ends at it
RECURSIVE HoldsDate(_)
HoldsDate(cf) ==
    CASE cf.t = "CFDate" -> TRUE
      [] cf.t = "CFArray" -> \E j \in 1..Len(cf.es) : HoldsDate(cf.es[j])
      [] cf.t = "CFDictionary" -> \E j \in 1..Len(cf.kv) : HoldsDate(cf.kv[j].val)
      [] OTHER -> FALSE
DateInside(cf) == cf.t # "CFDate" /\ HoldsDate(cf)

\* an object was walked into a pointer to a nil interface
AnyCase == Walked /\ pre.T.elem[1].k = "iface" /\ pre.ptr[1].dyn = <<>>

-----------------------------------------------------------------------------
(* Unmarshalers: the unmarshaler of the unmarshal tests, and Unmarshalers that *)
(* keep the argument they are given and count their calls                     *)

\* type unmarshaler struct{ T bool }; func (u *unmarshaler) UnmarshalPlist sets
\* *u = unmarshaler{true}
unmarshalerT ==
    [StructT("unmarshaler", <<Field(<<"T">>, <<>>, BoolT)>>) EXCEPT
        !.uh = [recv |-> "ptr", ret |-> <<SetsFields(<<BoolV(TRUE)>>)>>, err |-> NoErr]]

\* type ustruct struct{ M unmarshaler }
ustructT == StructT("ustruct", <<Field(<<"M">>, <<>>, unmarshalerT)>>)

UnhookFailed == ErrorsNew("UnmarshalPlist failed")

\* type rec struct{ P interface{}; N int }; func (r *rec) UnmarshalPlist(plist) does
\* r.P = plist; r.N++ and returns err
RecT(name, err) ==
    [StructT(name, <<Field(<<"P">>, <<>>, AnyT), Field(<<"N">>, <<>>, IntT)>>) EXCEPT
        !.uh = [recv |-> "ptr", ret |-> <<StoresPlist>>, err |-> err]]

\* type vrec struct{ N int }; func (v vrec) UnmarshalPlist returns nil
VrecT ==
    [StructT("vrec", <<Field(<<"N">>, <<>>, IntT)>>) EXCEPT
        !.uh = [recv |-> "val", ret |-> <<>>, err |-> NoErr]]

um0 == StructV(unmarshalerT, <<BoolV(FALSE)>>)
umtrue == StructV(unmarshalerT, <<BoolV(TRUE)>>)
umslice == SliceV(SliceT(unmarshalerT), <<umtrue>>)
umstruct == StructV(ustructT, <<umtrue>>)

\* a rec and a vrec that were called before
Rec(t) == StructV(t, <<NilIface(AnyT), IntV(IntT, Small64(7))>>)
Vrec == StructV(VrecT, <<IntV(IntT, Small64(7))>>)

\* the variables an Unmarshaler is decoded into: a value, a pointer and a nil pointer,
\* and an interface{} holding a pointer, a nil pointer or a value
Receivers ==
    UNION {{Rec(t), PtrV(PtrT(t), Rec(t)), NilPtr(PtrT(t)),
            AsAny(PtrV(PtrT(t), Rec(t))), AsAny(NilPtr(PtrT(t)))} :
           t \in {RecT("rec", NoErr), RecT("bad", UnhookFailed)}}
        \cup {Vrec, PtrV(PtrT(VrecT), Vrec), NilPtr(PtrT(VrecT)), AsAny(Vrec),
              AsAny(NilPtr(PtrT(VrecT)))}
        \cup {um0, PtrV(PtrT(unmarshalerT), um0), NilPtr(PtrT(unmarshalerT))}

\* &um0, &ump, &umslice, &umslicep and &umstruct of the tests are among them
UnhookTargets ==
    {PtrV(PtrT(x.T), x) : x \in Receivers}
        \cup {PtrV(PtrT(umslice.T), umslice),
              PtrV(PtrT(PtrT(umslice.T)), PtrV(PtrT(umslice.T), NilSlice(umslice.T))),
              PtrV(PtrT(ustructT), umstruct)}

Dict(kv) == MapV(MapT(StringT, AnyT), kv)

\* {"T": false}, [{"T": false}], {"M": {"T": false}} of the tests, a Dictionary with
\* the keys P and N, one without pairs, and three leaves
UnhookInputs ==
    LET t == Dict(<<[key |-> <<"T">>, val |-> AsAny(BoolV(FALSE))]>>)
    IN  {t, SliceV(SliceT(AnyT), <<AsAny(t)>>),
         Dict(<<[key |-> <<"M">>, val |-> AsAny(t)]>>),
         Dict(<<[key |-> <<"N">>, val |-> AsAny(IntV(IntT, Small64(3)))],
                [key |-> <<"P">>, val |-> AsAny(StringV(<<"a">>))]>>),
         Dict(<<>>),
         StringV(<<"a">>), IntV(IntT, Small64(3)),
         FloatV(Float64T, FloatOf(FALSE, Small64(2), 5))}

MarshalUnhook ==
    \E v \in UnhookInputs : DoMarshal(v, XMLFormat)

UnmarshalUnhook ==
    /\ trace = NoCall
    /\ \E bytes \in SameBytes(data) \cup {GarbageBytes}, v \in UnhookTargets :
          DoUnmarshal(bytes, v)

NextUnhook == MarshalUnhook \/ UnmarshalUnhook

SpecUnhook == Init /\ [][NextUnhook]_vars

\* the type whose UnmarshalPlist a variable x answers with, if any: x itself or its
\* address has the method, or x is an interface holding something that has it
Answers(x) ==
    CASE x.T.k = "ptr" -> IF x.T.elem[1].uh.recv # "none" THEN <<x.T.elem[1]>> ELSE <<>>
      [] x.T.k = "iface" ->
            IF x.dyn = <<>> THEN <<>>
            ELSE IF x.dyn[1].T.k = "ptr"
            THEN IF x.dyn[1].T.elem[1].uh.recv # "none" THEN <<x.dyn[1].T.elem[1]>> ELSE <<>>
            ELSE IF x.dyn[1].T.uh.recv = "val" THEN <<x.dyn[1].T>> ELSE <<>>
      [] OTHER -> IF x.T.uh.recv # "none" THEN <<x.T>> ELSE <<>>

\* a pointer after one call of the method with the argument plist, allocated first
\* when it is nil
CalledOn(p, plist) ==
    PtrV(p.T, ApplyHook(p.T.elem[1].uh,
                        IF p.ptr = <<>> THEN ZeroV(p.T.elem[1]) ELSE p.ptr[1], plist))

\* the variable x after one call and nothing else
CalledOnce(x, plist) ==
    CASE x.T.k = "ptr" -> CalledOn(x, plist)
      [] x.T.k = "iface" ->
            IF x.dyn[1].T.k = "ptr" THEN IfaceV(x.T, CalledOn(x.dyn[1], plist)) ELSE x
      [] OTHER -> ApplyHook(x.T.uh, x, plist)

\* an object was walked into a pointer to a variable that answers with an UnmarshalPlist
UnhookCase == Walked /\ Answers(pre.ptr[1]) # <<>>

\* C19: when the target, or the address of a target of a named type that is not a
\* pointer, implements UnmarshalPlist, the target is allocated first if it is a nil
\* pointer, the method is called once with the generic form of the object, nothing is
\* decoded into the target, and what the method returns is returned.
C19_UnmarshalerPrecedence ==
    UnhookCase =>
        /\ uerr = Answers(pre.ptr[1])[1].uh.err
        /\ ustate = NoErr
        /\ target.ptr[1] = CalledOnce(pre.ptr[1], convertCFTypeToInterface(Decoded).v)

-----------------------------------------------------------------------------
(* siblings: values that marshal and values that do not, side by side in a *)
(* slice, a map and a struct                                               *)

\* type P struct{ A int } and type Q struct{ A int }
SibPT == StructT("P", <<Field(<<"A">>, <<>>, IntT)>>)
SibQT == StructT("Q", <<Field(<<"A">>, <<>>, IntT)>>)

\* type K struct{ X, Y interface{} }
SibKT == StructT("K", <<Field(<<"X">>, <<>>, AnyT), Field(<<"Y">>, <<>>, AnyT)>>)

SibP == StructV(SibPT, <<IntV(IntT, Small64(1))>>)
SibQ == StructV(SibQT, <<IntV(IntT, Small64(2))>>)

\* two structs, which marshal; a nil pointer, a Marshaler whose MarshalPlist fails
\* and a slice with a nil pointer before a struct, which do not
SibBad == SliceV(SliceT(AnyT), <<AsAny(NilPtr(PtrT(IntT))), AsAny(SibQ)>>)
Siblings ==
    {SibP, SibQ, NilPtr(PtrT(IntT)),
     IntV(HookT("H", "val", <<>>, HookFailed), Small64(1)), SibBad}

\* the lists of 1 to n siblings, each held in an interface{}
RECURSIVE SiblingLists(_)
SiblingLists(n) ==
    IF n = 0 THEN {}
    ELSE {<<AsAny(x)>> : x \in Siblings}
            \cup SiblingLists(n - 1)
            \cup {Append(l, AsAny(x)) : l \in SiblingLists(n - 1), x \in Siblings}

SiblingKeys == <<<<"a">>, <<"b">>, <<"c">>, <<"d">>>>

\* a list as a []interface{} and as a map[string]interface{} iterated in this
\* order, and a K
SiblingInputs ==
    UNION {{SliceV(SliceT(AnyT), l),
            MapV(MapT(StringT, AnyT),
                 [j \in 1..Len(l) |-> [key |-> SiblingKeys[j], val |-> l[j]]])} :
           l \in SiblingLists(MaxLen)}
        \cup {StructV(SibKT, <<AsAny(x), AsAny(y)>>) : x \in Siblings, y \in Siblings}

MarshalSiblings ==
    \E v \in SiblingInputs : DoMarshal(v, XMLFormat)

UnmarshalSiblings ==
    /\ trace = NoCall
    /\ \E bytes \in {data, GarbageBytes} : DoUnmarshal(bytes, NewAny)

NextSiblings == MarshalSiblings \/ UnmarshalSiblings

SpecSiblings == Init /\ [][NextSiblings]_vars

\* the values directly inside a container, in the order they are marshalled
Inside(v) ==
    CASE v.T.k \in {"slice", "array"} -> v.es
      [] v.T.k = "map" -> [j \in 1..Len(v.kv) |-> v.kv[j].val]
      [] v.T.k = "struct" -> v.fs

\* a walk that stops at the first error: the error, and the struct types met before it
RECURSIVE Visit(_, _)
RECURSIVE VisitAll(_, _, _)
VisitAll(vs, j, acc) ==
    IF j > Len(vs) THEN acc ELSE VisitAll(vs, j + 1, Visit(vs[j], acc))
Visit(v, acc) ==
    IF IsErr(acc.err) THEN acc
    ELSE CASE v.T.k = "iface" /\ v.dyn # <<>> -> Visit(v.dyn[1], acc)
           [] v.T.k \in {"slice", "array", "map"} -> VisitAll(Inside(v), 1, acc)
           [] v.T.k = "struct" ->
                 VisitAll(Inside(v), 1, [acc EXCEPT !.types = @ \cup {v.T}])
           [] OTHER -> [acc EXCEPT !.err = marshalValue(v, FALSE, <<>>).err]

FirstError(v) == Visit(v, [err |-> NoErr, types |-> {}])

\* C20: Marshal stops at the first error met in a nested element, map value or struct
\* field: that error is returned with no bytes, no later sibling is marshalled (the
\* descriptor of a struct that comes after it is not asked for), and when there is no
\* error the bytes hold every sibling.  Bytes and an error are never returned together.
C20_FailFast ==
    [][(trace' = NoCall /\ obj' \in SiblingInputs) =>
          /\ merr' = FirstError(obj').err
          /\ DOMAIN encodeFieldsCache' = DOMAIN encodeFieldsCache \cup FirstError(obj').types
          /\ IsErr(merr') => data' = NoBytes
          /\ ~IsErr(merr') =>
                /\ data'.valid
                /\ data'.fmt = mfmt'
                /\ Len(IF data'.plist[1].t = "CFArray" THEN data'.plist[1].es
                       ELSE data'.plist[1].kv) = Len(Inside(obj'))]_vars

\* a P, then a slice with a nil pointer before a Q: the error was returned without
\* bytes, the descriptor of P is in the cache and that of Q is not
C20_Witness ==
    /\ obj \in SiblingInputs
    /\ trace = NoCall
    /\ Inside(obj) = <<AsAny(SibP), AsAny(SibBad)>>
    /\ merr = UnsupportedValueError("nil pointer")
    /\ data = NoBytes
    /\ SibPT \in DOMAIN encodeFieldsCache
    /\ SibQT \notin DOMAIN encodeFieldsCache

-----------------------------------------------------------------------------
(* mismatches: values that fit an int8 and values that do not, decoded into *)
(* variables that are already filled                                       *)

\* 3, which fits an int8; 300, which overflows it; "a", which is no number
FrameLeaves == {IntV(IntT, Small64(3)), IntV(IntT, Small64(300)), StringV(<<"a">>)}

\* the lists of 1 to n leaves, each held in an interface{}
RECURSIVE FrameLists(_)
FrameLists(n) ==
    IF n = 0 THEN {}
    ELSE {<<AsAny(x)>> : x \in FrameLeaves}
            \cup FrameLists(n - 1)
            \cup {Append(l, AsAny(x)) : l \in FrameLists(n - 1), x \in FrameLeaves}

FrameKeys == <<<<"a">>, <<"b">>, <<"c">>, <<"d">>>>

\* a leaf, a []interface{} of leaves, and a map[string]interface{} with the keys a, b
FrameInputs ==
    FrameLeaves
        \cup UNION {{SliceV(SliceT(AnyT), l),
                     MapV(MapT(StringT, AnyT),
                          [j \in 1..Len(l) |-> [key |-> FrameKeys[j], val |-> l[j]]])} :
                    l \in FrameLists(MaxLen)}

Seven == IntV(Int8T, Small64(7))
Eight == IntV(Int8T, Small64(8))

\* type AB struct{ A, B int8 }
FrameABT == StructT("AB", <<Field(<<"A">>, <<>>, Int8T), Field(<<"B">>, <<>>, Int8T)>>)

\* an int8, a [2]int8, a []int8, a map[string]int8 with the key a, an AB, all filled;
\* and an interface{} holding the int8, a nil error
FrameFilled ==
    {Seven,
     ArrayV(ArrayT(2, Int8T), <<Seven, Eight>>),
     SliceV(SliceT(Int8T), <<Seven, Eight>>),
     MapV(MapT(StringT, Int8T), <<[key |-> <<"a">>, val |-> Seven]>>),
     StructV(FrameABT, <<Seven, Eight>>),
     AsAny(Seven),
     NilIface(ClosedIfaceT)}

FrameTargets == {PtrV(PtrT(x.T), x) : x \in FrameFilled}

MarshalFrame ==
    \E v \in FrameInputs : DoMarshal(v, XMLFormat)

UnmarshalFrame ==
    /\ trace = NoCall
    /\ \E bytes \in SameBytes(data) \cup {GarbageBytes}, v \in FrameTargets :
          DoUnmarshal(bytes, v)

NextFrame == MarshalFrame \/ UnmarshalFrame

SpecFrame == Init /\ [][NextFrame]_vars

\* the object does not fit a variable of type t: it is of another variant, or a
\* number out of the range of t
Misfit(cf, t) ==
    CASE cf.t = "CFBoolean" -> t.k # "bool"
      [] cf.t = "CFString" -> t.k # "string"
      [] cf.t = "CFArray" -> t.k \notin {"slice", "array"}
      [] cf.t = "CFDictionary" -> t.k \notin {"map", "struct"}
      [] cf.t = "CFNumber" ->
            \/ t.k \notin IntKinds \cup UintKinds \cup FloatKinds
            \/ t.k \in IntKinds /\ OverflowInt(convertCFNumberToInt64(cf), KindBits(t.k))
            \/ t.k \in UintKinds /\ OverflowUint(convertCFNumberToUInt32(cf), KindBits(t.k))
      [] OTHER -> FALSE

\* a mismatch is recorded for the object decoded into the variable b
Mismatches(cf, b) ==
    IF b.T.k = "iface"
    THEN IF b.dyn = <<>> THEN ~b.T.open ELSE Misfit(cf, b.dyn[1].T)
    ELSE Misfit(cf, b.T)

\* every variable that was filled before the call (b) and for which a mismatch is
\* recorded holds after the call (a) what it held before
RECURSIVE Kept(_, _, _)
Kept(cf, b, a) ==
    IF Mismatches(cf, b) THEN a = b
    ELSE CASE cf.t = "CFArray" /\ b.T.k \in {"slice", "array"} ->
                \A j \in 1..Len(cf.es) :
                    j <= Len(b.es) => j <= Len(a.es) /\ Kept(cf.es[j], b.es[j], a.es[j])
           [] cf.t = "CFDictionary" /\ b.T.k = "map" ->
                \A j \in 1..Len(cf.kv) :
                    HasKey(b.kv, cf.kv[j].key) =>
                        /\ HasKey(a.kv, cf.kv[j].key)
                        /\ Kept(cf.kv[j].val, Lookup(b.kv, cf.kv[j].key),
                                Lookup(a.kv, cf.kv[j].key))
           [] cf.t = "CFDictionary" /\ b.T.k = "struct" ->
                \A j \in 1..Len(cf.kv) :
                    LET f == matchField(b.T.fields, cf.kv[j].key, 1, 0)
                    IN  f # 0 => Kept(cf.kv[j].val, b.fs[f], a.fs[f])
           [] OTHER -> TRUE

\* an object was walked into a pointer to a filled variable
FrameCase == Walked /\ pre \in FrameTargets

\* C21: a variable for which a mismatch is recorded (another variant, or a number
\* out of range) holds after the call what it held before it: a struct field, an
\* element of an array or slice, an interface, and the entry of a map under a key
\* the map had before.
C21_MismatchKeepsValue ==
    FrameCase => Kept(Decoded, pre.ptr[1], target.ptr[1])

-----------------------------------------------------------------------------
(* the accumulator: the same inputs and variables, with Unmarshal called again *)
(* and again                                                                   *)

MarshalFirst ==
    \E v \in FrameInputs : DoMarshal(v, XMLFormat)

\* any number of Unmarshal calls, one after the other
UnmarshalFirst ==
    \E bytes \in SameBytes(data) \cup {GarbageBytes}, v \in FrameTargets :
        DoUnmarshal(bytes, v)

NextFirst == MarshalFirst \/ UnmarshalFirst

SpecFirst == Init /\ [][NextFirst]_vars

\* the error that describes the mismatch of the object with the variable b
MismatchOf(cf, b) ==
    LET t == IF b.T.k = "iface" /\ b.dyn # <<>> THEN b.dyn[1].T ELSE b.T
    IN  IF cf.t = "CFNumber" /\ t.k \in IntKinds
        THEN UnmarshalTypeError(<<"CFNumber", " ">> \o FormatInt(convertCFNumberToInt64(cf)), t)
        ELSE UnmarshalTypeError(<<cf.t>>, t)

\* the variables the parts of an object are decoded into, in walk order: the
\* elements of a new slice, the elements of the array, a new element for each pair
\* of a map, the field each key selects
Parts(cf, b) ==
    CASE cf.t = "CFArray" /\ b.T.k = "slice" ->
            [j \in 1..Len(cf.es) |-> [cf |-> cf.es[j], b |-> ZeroV(b.T.elem[1])]]
      [] cf.t = "CFArray" /\ b.T.k = "array" ->
            [j \in 1..(IF Len(cf.es) < Len(b.es) THEN Len(cf.es) ELSE Len(b.es)) |->
                [cf |-> cf.es[j], b |-> b.es[j]]]
      [] cf.t = "CFDictionary" /\ b.T.k = "map" ->
            [j \in 1..Len(cf.kv) |-> [cf |-> cf.kv[j].val, b |-> ZeroV(b.T.elem[1])]]
      [] cf.t = "CFDictionary" /\ b.T.k = "struct" ->
            LET hit == SelectSeq([j \in 1..Len(cf.kv) |-> j],
                                 LAMBDA j : matchField(b.T.fields, cf.kv[j].key, 1, 0) # 0)
            IN  [h \in 1..Len(hit) |->
                    [cf |-> cf.kv[hit[h]].val,
                     b |-> b.fs[matchField(b.T.fields, cf.kv[hit[h]].key, 1, 0)]]]
      [] OTHER -> <<>>

\* the mismatch of the first node, in walk order, that has one (acc when there is
\* one already)
RECURSIVE FirstMismatch(_, _, _)
RECURSIVE FirstOfParts(_, _, _)
FirstOfParts(parts, j, acc) ==
    IF j > Len(parts) THEN acc
    ELSE FirstOfParts(parts, j + 1, FirstMismatch(parts[j].cf, parts[j].b, acc))
FirstMismatch(cf, b, acc) ==
    IF IsErr(acc) THEN acc
    ELSE IF Mismatches(cf, b) THEN MismatchOf(cf, b)
    ELSE IF b.T.k = "iface"
    THEN FirstOfParts(Parts(cf, HeldValue(cf, b)), 1, acc)
    ELSE FirstOfParts(Parts(cf, b), 1, acc)

\* an Unmarshal call walked an object into one of the filled variables
FirstCase == Walked /\ pre \in FrameTargets

\* C22: the accumulator of an Unmarshal call holds nothing or the mismatch of the
\* first mismatching node in walk order; a later mismatch never replaces it, what an
\* earlier call recorded is not in it, and without a fatal error it is what Unmarshal
\* returns.
C22_FirstErrorWins ==
    FirstCase =>
        /\ ustate = FirstMismatch(Decoded, pre.ptr[1], NoErr)
        /\ uerr.e \in {"nil", "UnmarshalTypeError"} => uerr = ustate

\* 300 and then "a" were decoded into a [2]int8: the overflow is returned
C22_Witness ==
    /\ FirstCase
    /\ pre.ptr[1].T.k = "array"
    /\ Decoded.t = "CFArray"
    /\ Len(Decoded.es) = 2
    /\ Mismatches(Decoded.es[1], Seven)
    /\ Mismatches(Decoded.es[2], Eight)
    /\ MismatchOf(Decoded.es[1], Seven) # MismatchOf(Decoded.es[2], Eight)
    /\ uerr = MismatchOf(Decoded.es[1], Seven)

-----------------------------------------------------------------------------
(* descriptors: structs whose fields are exported or not, embedded, tagged "-", *)
(* renamed and marked omitempty                                               *)

OmitTag(name) == name \o <<",">> \o OmitEmptyOpt

\* the struct types whose descriptor is computed
DescTypes ==
    {StructT("D1", <<Field(<<"A">>, <<>>, IntT), Unexported(Field(<<"b">>, <<>>, IntT)),
                     Embedded(Field(<<"E">>, <<>>, IntT))>>),
     StructT("D2", <<Field(<<"A">>, <<"-">>, IntT), Field(<<"B">>, <<"a", "b">>, IntT),
                     Field(<<"C">>, OmitTag(<<>>), IntT)>>),
     StructT("D3", <<Field(<<"A">>, OmitTag(<<"a", "b">>), IntT),
                     Field(<<"B">>, <<"a", "b", ",", "o", "m", "i", "t">>, IntT),
                     Field(<<"C">>, <<"x", ",", "a", ",">> \o OmitEmptyOpt, IntT)>>),
     StructT("D4", <<Field(<<"B">>, <<>>, IntT), Field(<<"A">>, <<>>, IntT),
                     Unexported(Field(<<"c">>, <<"a", "b">>, IntT))>>),
     StructT("D5", <<Field(<<"A">>, <<"a", "-", "b">>, IntT),
                     Field(<<"B">>, <<"a", " ", "b">>, IntT)>>),
     StructT("D6", <<Field(<<"A">>, OmitTag(<<"-">>), IntT)>>),
     StructT("D7", <<Unexported(Field(<<"a">>, <<>>, IntT)),
                     Embedded(Field(<<"E">>, <<"a", "b">>, IntT)),
                     Field(<<"Z">>, <<"-">>, IntT)>>),
     StructT("D8", <<>>)}

MarshalDesc ==
    \E t \in DescTypes, format \in Formats : DoMarshal(ZeroV(t), format)

UnmarshalDesc ==
    /\ trace = NoCall
    /\ \E bytes \in {data, GarbageBytes} : DoUnmarshal(bytes, NewAny)

NextDesc == MarshalDesc \/ UnmarshalDesc

SpecDesc == Init /\ [][NextDesc]_vars

\* the fields of t that are exported, not embedded and not tagged "-", in the order
\* of declaration
Listed(t) ==
    SelectSeq([j \in 1..Len(t.fields) |-> j],
              LAMBDA j : /\ t.fields[j].exported
                         /\ ~t.fields[j].anonymous
                         /\ t.fields[j].tag # <<"-">>)

\* the descriptor of t: for each listed field its index, the name of its tag when
\* that is a valid name, else its declared name, and whether the options of the tag
\* contain omitempty
Descriptor(t) ==
    [h \in 1..Len(Listed(t)) |->
        LET f == t.fields[Listed(t)[h]]
        IN  [i |-> Listed(t)[h] - 1,
             name |-> IF NameAllowed(parseTag(f.tag).name) THEN parseTag(f.tag).name
                      ELSE f.name,
             omitEmpty |-> Contains(parseTag(f.tag).opts, OmitEmptyOpt)]]

\* a struct of one of the types was marshalled
DescCase == obj.T \in DescTypes

\* C23: the descriptor of a struct type lists exactly its fields that are exported,
\* not embedded and not tagged "-", in the order of declaration, each with its index,
\* its name (the valid name of its tag, else the declared name) and omitEmpty true
\* exactly when the options of the tag contain omitempty.
C23_DescriptorFields ==
    DescCase =>
        /\ obj.T \in DOMAIN encodeFieldsCache
        /\ encodeFieldsCache[obj.T] = Descriptor(obj.T)

-----------------------------------------------------------------------------
(* encodeFields called by several goroutines: each step is one line of the call, *)
(* and the steps of the goroutines interleave                                    *)

\* the variables of the Marshal and Unmarshal calls, which stay as they are
seqVars == <<obj, mfmt, data, merr, udata, pre, target, uerr, ufmt, ustate, trace>>

\* the struct types the goroutines ask for
GoTypes == {SibPT, SibQT}

\* m[k] = x on a Go map
MapAssign(m, k, x) == [y \in DOMAIN m \cup {k} |-> IF y = k THEN x ELSE m[y]]

\* fs, ok := encodeFieldsCache[t]
MapLookup(t) ==
    IF t \in DOMAIN encodeFieldsCache THEN [fs |-> encodeFieldsCache[t], ok |-> TRUE]
    ELSE [fs |-> <<>>, ok |-> FALSE]

Goto(c, label) == pc' = [pc EXCEPT ![c] = label]

\* marshalStruct, line 669: a goroutine calls encodeFields(t)
Call(c) ==
    /\ pc[c] = "idle"
    /\ \E t \in GoTypes : arg' = [arg EXCEPT ![c] = <<t>>]
    /\ local' = [local EXCEPT ![c] = [fs |-> <<>>, ok |-> FALSE]]
    /\ Goto(c, "rlock")
    /\ UNCHANGED <<encodeFieldsCache, typeCacheLock, computed, seqVars>>

\* RLock that does not wait for a goroutine that called Lock
RLockThrough(c) ==
    /\ pc[c] = "rlock"
    /\ typeCacheLock' = [typeCacheLock EXCEPT !.readers = @ \cup {c}]
    /\ Goto(c, "read")
    /\ UNCHANGED <<encodeFieldsCache, arg, local, computed, seqVars>>

\* line 740, typeCacheLock.RLock(): waits while a goroutine has called Lock
RLock(c) ==
    /\ pc[c] = "rlock"
    /\ typeCacheLock.writer = <<>>
    /\ typeCacheLock' = [typeCacheLock EXCEPT !.readers = @ \cup {c}]
    /\ Goto(c, "read")
    /\ UNCHANGED <<encodeFieldsCache, arg, local, computed, seqVars>>

\* line 741: fs, ok := encodeFieldsCache[t]
ReadCache(c) ==
    /\ pc[c] = "read"
    /\ local' = [local EXCEPT ![c] = MapLookup(arg[c][1])]
    /\ Goto(c, "runlock")
    /\ UNCHANGED <<encodeFieldsCache, typeCacheLock, arg, computed, seqVars>>

\* lines 742-745: typeCacheLock.RUnlock(), and on a hit fs is returned
RUnlock(c) ==
    /\ pc[c] = "runlock"
    /\ typeCacheLock' = [typeCacheLock EXCEPT !.readers = @ \ {c}]
    /\ Goto(c, IF local[c].ok THEN "idle" ELSE "lock")
    /\ UNCHANGED <<encodeFieldsCache, arg, local, computed, seqVars>>

\* line 747, typeCacheLock.Lock(): one goroutine at a time gets to wait for the
\* readers to leave, and no new reader comes in
Lock(c) ==
    /\ pc[c] = "lock"
    /\ typeCacheLock.writer = <<>>
    /\ typeCacheLock' = [typeCacheLock EXCEPT !.writer = <<c>>]
    /\ Goto(c, "locking")
    /\ UNCHANGED <<encodeFieldsCache, arg, local, computed, seqVars>>

\* line 747: Lock returns when the last reader has left
Locked(c) ==
    /\ pc[c] = "locking"
    /\ typeCacheLock.readers = {}
    /\ typeCacheLock' = [typeCacheLock EXCEPT !.held = TRUE]
    /\ Goto(c, "recheck")
    /\ UNCHANGED <<encodeFieldsCache, arg, local, computed, seqVars>>

\* the second look that never finds the entry
RecheckNever(c) ==
    /\ pc[c] = "recheck"
    /\ local' = [local EXCEPT ![c] = [fs |-> <<>>, ok |-> FALSE]]
    /\ Goto(c, "compute")
    /\ UNCHANGED <<encodeFieldsCache, typeCacheLock, arg, computed, seqVars>>

\* lines 749-752: fs, ok = encodeFieldsCache[t], and on a hit fs is returned
Recheck(c) ==
    /\ pc[c] = "recheck"
    /\ local' = [local EXCEPT ![c] = MapLookup(arg[c][1])]
    /\ Goto(c, IF MapLookup(arg[c][1]).ok THEN "unlock" ELSE "compute")
    /\ UNCHANGED <<encodeFieldsCache, typeCacheLock, arg, computed, seqVars>>

\* the store that makes a new map of the one entry
StoreAlone(c) ==
    /\ pc[c] = "compute"
    /\ local' = [local EXCEPT ![c].fs = computeFields(arg[c][1], Len(arg[c][1].fields))]
    /\ encodeFieldsCache' = (arg[c][1] :> computeFields(arg[c][1], Len(arg[c][1].fields)))
    /\ computed' = MapAssign(computed, arg[c][1],
                             IF arg[c][1] \in DOMAIN computed THEN computed[arg[c][1]] + 1
                             ELSE 1)
    /\ Goto(c, "unlock")
    /\ UNCHANGED <<typeCacheLock, arg, seqVars>>

\* lines 754-785: the descriptor is computed, stored with encodeFieldsCache[t] = fs
\* and returned
ComputeAndStore(c) ==
    /\ pc[c] = "compute"
    /\ local' = [local EXCEPT ![c].fs = computeFields(arg[c][1], Len(arg[c][1].fields))]
    /\ encodeFieldsCache' = MapAssign(encodeFieldsCache, arg[c][1],
                                      computeFields(arg[c][1], Len(arg[c][1].fields)))
    /\ computed' = MapAssign(computed, arg[c][1],
                             IF arg[c][1] \in DOMAIN computed THEN computed[arg[c][1]] + 1
                             ELSE 1)
    /\ Goto(c, "unlock")
    /\ UNCHANGED <<typeCacheLock, arg, seqVars>>

\* a return that leaves the lock held
UnlockNever(c) ==
    /\ pc[c] = "unlock"
    /\ Goto(c, "idle")
    /\ UNCHANGED <<encodeFieldsCache, typeCacheLock, arg, local, computed, seqVars>>

\* line 748, defer typeCacheLock.Unlock(): runs on both returns
Unlock(c) ==
    /\ pc[c] = "unlock"
    /\ typeCacheLock' = [typeCacheLock EXCEPT !.writer = <<>>, !.held = FALSE]
    /\ Goto(c, "idle")
    /\ UNCHANGED <<encodeFieldsCache, arg, local, computed, seqVars>>

\* a step of a call that has begun
Proceed(c) ==
    \/ RLock(c)
    \/ ReadCache(c)
    \/ RUnlock(c)
    \/ Lock(c)
    \/ Locked(c)
    \/ Recheck(c)
    \/ ComputeAndStore(c)
    \/ Unlock(c)

NextGo == \E c \in Callers : Call(c) \/ Proceed(c)

SpecGo == Init /\ [][NextGo]_vars

\* every goroutine that can take a step of its call gets to take one
SpecGoFair == SpecGo /\ \A c \in Callers : WF_vars(Proceed(c))

\* C24: whatever the interleaving, the descriptor of a struct type is computed and
\* stored at most once: a goroutine that missed under the read lock looks again under
\* the exclusive lock and returns the entry another goroutine stored meanwhile.
C24_ComputedOnce ==
    /\ \A t \in DOMAIN computed : computed[t] <= 1
    /\ \A c \in Callers :
          (pc[c] = "unlock" /\ local[c].ok) => local[c].fs = encodeFieldsCache[arg[c][1]]

\* a goroutine missed under the read lock, found the entry under the exclusive lock
\* and is about to return it; the descriptor was computed once
C24_Witness ==
    \E c \in Callers :
        /\ pc[c] = "unlock"
        /\ local[c].ok
        /\ computed[arg[c][1]] = 1

\* the lines at which a goroutine reads the map, and the line at which it writes it
ReadLines == {"read", "recheck"}
WriteLines == {"compute"}

\* C25: every write to encodeFieldsCache is made with the exclusive lock held, every
\* read with the read lock or the exclusive lock held, and no write happens at the
\* same time as a read or another write.
C25_NoDataRace ==
    /\ \A c \in Callers :
          /\ pc[c] \in WriteLines => typeCacheLock.writer = <<c>> /\ typeCacheLock.held
          /\ pc[c] \in ReadLines =>
                \/ c \in typeCacheLock.readers
                \/ typeCacheLock.writer = <<c>> /\ typeCacheLock.held
    /\ \A c, d \in Callers :
          (c # d /\ pc[c] \in WriteLines) => pc[d] \notin ReadLines \cup WriteLines
    /\ typeCacheLock.held => typeCacheLock.readers = {}

\* a goroutine is about to write the map while another waits in RLock
C25_Witness ==
    \E c, d \in Callers :
        /\ pc[c] = "compute"
        /\ pc[d] = "rlock"
        /\ arg[d] = arg[c]

\* C26: an entry of encodeFieldsCache is never removed or replaced, and every
\* encodeFields call returns the entry of its type.
C26_AppendOnly ==
    [][/\ \A t \in DOMAIN encodeFieldsCache :
              t \in DOMAIN encodeFieldsCache' /\ encodeFieldsCache'[t] = encodeFieldsCache[t]
       /\ \A c \in Callers :
              (pc[c] # "idle" /\ pc'[c] = "idle") =>
                  /\ arg[c][1] \in DOMAIN encodeFieldsCache'
                  /\ local'[c].fs = encodeFieldsCache'[arg[c][1]]]_vars

\* the map holds both types, and a goroutine got the entry of one on its first look,
\* after another goroutine had stored it
C26_Witness ==
    /\ DOMAIN encodeFieldsCache = GoTypes
    /\ \E c \in Callers :
          /\ pc[c] = "idle"
          /\ arg[c] # <<>>
          /\ local[c].ok
          /\ local[c].fs = encodeFieldsCache[arg[c][1]]

\* C29: under fair scheduling every encodeFields call returns: the read lock is
\* released before the exclusive lock is asked for, the exclusive lock is released
\* on both returns, and no goroutine waits forever.
C29_CallsReturn ==
    /\ [](\A c \in Callers :
            /\ pc[c] \in {"lock", "locking", "recheck", "compute", "unlock"} =>
                  c \notin typeCacheLock.readers
            /\ pc[c] = "idle" => typeCacheLock.writer # <<c>>)
    /\ \A c \in Callers : (pc[c] # "idle") ~> (pc[c] = "idle")

\* a goroutine waits in Lock for a reader to leave while another waits in RLock
C29_Witness ==
    \E c, d \in Callers :
        /\ pc[c] = "locking"
        /\ typeCacheLock.readers = {d}
        /\ pc[d] \in {"read", "runlock"}

-----------------------------------------------------------------------------
(* maps: a map[string]interface{} is marshalled and its Dictionary decoded   *)
(* into maps of several key and element types, nil and filled                *)

MapLeaves == FrameLeaves \cup {TimeV(TicksPerSec)}

\* the lists of 0 to n pairs with the keys a, b, ... in order
RECURSIVE MapPairs(_)
MapPairs(n) ==
    IF n = 0 THEN {<<>>}
    ELSE MapPairs(n - 1)
            \cup {Append(l, [key |-> FrameKeys[n], val |-> AsAny(x)]) :
                    l \in {p \in MapPairs(n - 1) : Len(p) = n - 1}, x \in MapLeaves}

MapInputs == {MapV(MapT(StringT, AnyT), kv) : kv \in MapPairs(MaxLen)}

\* type K string
MapKT == TypeOf("string", "K")

\* maps with a string key: nil, and filled under the keys a and d
MapFilled(kt, e, x, y) ==
    {NilMap(MapT(kt, e)),
     MapV(MapT(kt, e), <<[key |-> <<"a">>, val |-> x]>>),
     MapV(MapT(kt, e), <<[key |-> <<"d">>, val |-> x]>>),
     MapV(MapT(kt, e), <<[key |-> <<"a">>, val |-> x], [key |-> <<"d">>, val |-> y]>>)}

\* map[string]int8, map[string]interface{}, map[string]time.Time, map[interface{}]int8,
\* map[K]int8, and a map[int]int8 that is nil or empty
MapTargets ==
    {PtrV(PtrT(m.T), m) :
        m \in MapFilled(StringT, Int8T, Seven, Eight)
                \cup MapFilled(StringT, AnyT, AsAny(Seven), AsAny(Eight))
                \cup MapFilled(AnyT, Int8T, Seven, Eight)
                \cup MapFilled(MapKT, Int8T, Seven, Eight)
                \cup {NilMap(MapT(StringT, timeType)),
                      NilMap(MapT(IntT, Int8T)), MapV(MapT(IntT, Int8T), <<>>)}}

MarshalMap ==
    \E v \in MapInputs : DoMarshal(v, XMLFormat)

UnmarshalMap ==
    /\ trace = NoCall
    /\ \E bytes \in SameBytes(data) \cup {GarbageBytes}, v \in MapTargets :
          DoUnmarshal(bytes, v)

NextMap == MarshalMap \/ UnmarshalMap

SpecMap == Init /\ [][NextMap]_vars

\* what a freshly zeroed element of type t holds after the object was decoded into
\* it: the object's default representation in an interface{}, the zero value after
\* a mismatch, the number or the time otherwise
Fresh(cf, t) ==
    CASE t.k = "iface" -> AsAny(Default(cf))
      [] cf.t = "CFDate" -> IF t = timeType THEN convertCFDateToTime(cf) ELSE ZeroV(t)
      [] cf.t = "CFNumber" /\ ~Misfit(cf, t) -> IntV(t, convertCFNumberToInt64(cf))
      [] OTHER -> ZeroV(t)

\* a Dictionary was walked into a pointer to a map
MapCase == Walked /\ pre \in MapTargets /\ Decoded.t = "CFDictionary"

\* the map a after the call holds the pairs of the Dictionary, each decoded into a
\* fresh element, and the entries of the map b before the call under other keys
Inserted(cf, b, a) ==
    /\ ~a.nil
    /\ \A j \in 1..Len(cf.kv) :
          /\ HasKey(a.kv, cf.kv[j].key)
          /\ Lookup(a.kv, cf.kv[j].key) = Fresh(cf.kv[j].val, b.T.elem[1])
    /\ \A j \in 1..Len(b.kv) :
          ~HasKey(cf.kv, b.kv[j].key) =>
              /\ HasKey(a.kv, b.kv[j].key)
              /\ Lookup(a.kv, b.kv[j].key) = b.kv[j].val
    /\ \A j \in 1..Len(a.kv) : HasKey(cf.kv, a.kv[j].key) \/ HasKey(b.kv, a.kv[j].key)

\* C27: a Dictionary decoded into a map whose key type a string is assignable to
\* leaves the map allocated, with every pair decoded into a freshly zeroed element
\* and inserted under its key and with every entry it had under another key; a map
\* of another key type is unchanged and the mismatch of the key type is recorded.
C27_DictionaryIntoMap ==
    MapCase =>
        IF AssignableTo(stringType, pre.ptr[1].T.key[1])
        THEN Inserted(Decoded, pre.ptr[1], target.ptr[1])
        ELSE /\ target = pre
             /\ uerr = UnmarshalTypeError(cfTypeNames("CFString"), pre.ptr[1].T.key[1])

-----------------------------------------------------------------------------
(* the generic form: maps of every size, alone and inside a map or a slice,  *)
(* are marshalled and read back with CFPropertyListCreateWithData            *)

\* CFPropertyListCreateWithData: the property list as an interface{}, nil on error
CFPropertyListCreateWithData(bytes) ==
    LET Convert(d, r) ==
            [plist |-> IF IsErr(r.err) THEN NilIface(AnyT) ELSE AsAny(r.v),
             format |-> d.format, err |-> r.err, trace |-> <<"decode", "convert">>]
        Then(d) ==
            IF IsErr(d.err)
            THEN [plist |-> NilIface(AnyT), format |-> d.format, err |-> d.err,
                  trace |-> <<"decode">>]
            ELSE Convert(d, convertCFTypeToInterface(d.cfObj))
    IN  Then(cfPropertyListCreateWithData(bytes))

\* the maps of MapInputs, and each of them under the key a of a map and as the
\* element of a slice
GenericInputs ==
    MapInputs
        \cup {MapV(MapT(StringT, AnyT), <<[key |-> <<"a">>, val |-> AsAny(m)]>>) :
                m \in MapInputs}
        \cup {SliceV(SliceT(AnyT), <<AsAny(m)>>) : m \in MapInputs}

MarshalGeneric ==
    \E v \in GenericInputs, format \in {XMLFormat, BinaryFormat} : DoMarshal(v, format)

CreateWithData ==
    /\ trace = NoCall
    /\ \E bytes \in SameBytes(data) \cup {GarbageBytes} :
          LET Returns(r) ==
                  /\ udata' = bytes
                  /\ target' = r.plist
                  /\ uerr' = r.err
                  /\ ufmt' = r.format
                  /\ trace' = r.trace
                  /\ UNCHANGED <<encodeFieldsCache, obj, mfmt, data, merr, pre, ustate>>
                  /\ UNCHANGED goVars
          IN  Returns(CFPropertyListCreateWithData(bytes))

NextGeneric == MarshalGeneric \/ CreateWithData

SpecGeneric == Init /\ [][NextGeneric]_vars

\* the object is a Dictionary or holds one
RECURSIVE HoldsDictionary(_)
HoldsDictionary(cf) ==
    CASE cf.t = "CFDictionary" -> TRUE
      [] cf.t = "CFArray" -> \E j \in 1..Len(cf.es) : HoldsDictionary(cf.es[j])
      [] OTHER -> FALSE

\* the object read from the bytes was converted to the generic form
Converted == trace = <<"decode", "convert">>

\* the map m holds exactly the pairs of the Dictionary, each value in its generic form
RECURSIVE SamePairs(_, _)
SamePairs(cf, v) ==
    CASE cf.t = "CFDictionary" ->
            /\ v.T = MapT(StringT, AnyT)
            /\ Len(v.kv) = Len(cf.kv)
            /\ \A j \in 1..Len(cf.kv) :
                  /\ HasKey(v.kv, cf.kv[j].key)
                  /\ Lookup(v.kv, cf.kv[j].key).dyn # <<>>
                  /\ SamePairs(cf.kv[j].val, Lookup(v.kv, cf.kv[j].key).dyn[1])
      [] cf.t = "CFArray" ->
            /\ v.T = SliceT(AnyT)
            /\ Len(v.es) = Len(cf.es)
            /\ \A j \in 1..Len(cf.es) :
                  v.es[j].dyn # <<>> /\ SamePairs(cf.es[j], v.es[j].dyn[1])
      [] OTHER -> Got(v) = convertCFTypeToInterface(cf)

\* C28: converting a Dictionary to the generic form returns no error and a map with
\* exactly the Dictionary's pairs, for a Dictionary of every size, zero included,
\* alone or inside another object.
C28_DictionaryToGeneric ==
    (Converted /\ HoldsDictionary(Decoded)) =>
        /\ uerr = NoErr
        /\ target.dyn # <<>>
        /\ SamePairs(Decoded, target.dyn[1])

-----------------------------------------------------------------------------
(* dictionaries: structs with omitempty fields and maps, whose values marshal *)
(* or fail, alone and inside one another                                      *)

\* type O struct { A int `plist:",omitempty"`; B interface{}; C int `plist:"c,omitempty"` }
KeysOT ==
    StructT("O", <<Field(<<"A">>, OmitTag(<<>>), IntT), Field(<<"B">>, <<>>, AnyT),
                   Field(<<"C">>, OmitTag(<<"c">>), IntT)>>)

\* what B holds: a number, a channel, nothing
KeysLeaves == {AsAny(IntV(IntT, Small64(3))), AsAny(OpaqueV(ChanT)), NilIface(AnyT)}

KeysStructsOf(bs) ==
    {StructV(KeysOT, <<IntV(IntT, Small64(a)), b, IntV(IntT, Small64(c))>>) :
        a \in 0..1, b \in bs, c \in 0..1}

\* an O with a leaf in B, and an O with such an O in B
KeysStructs ==
    KeysStructsOf(KeysLeaves) \cup KeysStructsOf({AsAny(s) : s \in KeysStructsOf(KeysLeaves)})

\* the lists of 0 to n pairs with the keys a, b, ... in order, a leaf or an O in each
RECURSIVE KeysPairs(_)
KeysPairs(n) ==
    IF n = 0 THEN {<<>>}
    ELSE KeysPairs(n - 1)
            \cup {Append(l, [key |-> FrameKeys[n], val |-> x]) :
                    l \in {p \in KeysPairs(n - 1) : Len(p) = n - 1},
                    x \in KeysLeaves \cup {AsAny(s) : s \in KeysStructsOf({NilIface(AnyT)})}}

KeysInputs ==
    KeysStructs
        \cup {PtrV(PtrT(KeysOT), s) : s \in KeysStructsOf(KeysLeaves)}
        \cup {MapV(MapT(StringT, AnyT), kv) : kv \in KeysPairs(MaxLen)}

MarshalKeys ==
    \E v \in KeysInputs, format \in {XMLFormat, BinaryFormat} : DoMarshal(v, format)

UnmarshalKeys ==
    /\ trace = NoCall
    /\ \E bytes \in {data, GarbageBytes} : DoUnmarshal(bytes, NewAny)

NextKeys == MarshalKeys \/ UnmarshalKeys

SpecKeys == Init /\ [][NextKeys]_vars

LengthsDiffer == Panic("plist: unexpected length difference between keys and values")

\* the fields of an O that are not omitted: B, and A and C when they are not zero
KeysKept(v) == {j \in 1..3 : j = 2 \/ v.fs[j].i # Small64(0)}

\* C30: the length assertion of createCFDictionary never fires: no Marshal call ends
\* in its panic, and the Dictionary of a struct has one pair for each field that is
\* not omitted (an omitted field adds neither a key nor a value; a value that fails
\* ends the call with its error before the Dictionary is created).
C30_LengthsAgree ==
    /\ merr # LengthsDiffer
    /\ (obj.T = KeysOT /\ merr = NoErr) =>
          /\ data.plist[1].t = "CFDictionary"
          /\ Len(data.plist[1].kv) = Cardinality(KeysKept(obj))
    /\ (obj.T = KeysOT /\ obj.fs[2] \in {AsAny(OpaqueV(ChanT)), NilIface(AnyT)}) =>
          IsErr(merr)

\* a struct with an omitted field was marshalled into a Dictionary of two pairs
C30_Witness ==
    /\ obj.T = KeysOT
    /\ obj.fs[1].i = Small64(0)
    /\ obj.fs[3].i # Small64(0)
    /\ merr = NoErr
    /\ Len(data.plist[1].kv) = 2


====
